---- MODULE Spec2Model ----
(***************************************************************************)
(* CKD-Review: the per-record derivation pipeline (eGFR, CKD stage, KFRE   *)
(* risk, stage overrides, BP target/flag) and the triage function of the   *)
(* report layer, for the three pipeline variants of the repository:        *)
(*   "core"  - Code/CKD_core.py, reported by Code/CKD_html_files.py        *)
(*             (ckd_review) or Code/CKD_pdf_files_new.py                   *)
(*             (compute_review_message);                                   *)
(*   "auto"  - CKD_auto.py (its own review_message);                       *)
(*   "nopdf" - CKD_auto_nopdf.py (its own review_message).                 *)
(* For "core" the pipeline goes on through the proteinuria flag and the    *)
(* medication steps that read the reference files (contraindications,      *)
(* dose adjustments, statins, recommendations); an exception raised by a   *)
(* step ends the run and is kept in `exception`.  The ingestion of the two *)
(* extracts (identifier forward-fill, backfill, temporal matching,         *)
(* medication merge, extract merge) is a specification of its own over     *)
(* small tables held in `extract`.                                         *)
(*                                                                         *)
(* Numbers.  Floating-point values are carried as fixed-point integers     *)
(* scaled by FP (four decimals); ln and exp are computed by range          *)
(* reduction and a truncated series, so eGFR and the risks agree with the  *)
(* source's floats to about 0.02.  NaN and Inf are explicit values; every  *)
(* comparison with NaN is false, as in IEEE arithmetic.  Risks are held in *)
(* hundredths of a percent.                                                *)
(***************************************************************************)
EXTENDS Integers, Sequences, FiniteSets, TLC

VARIABLES pipeline, pc, row, report, exception, extract

vars == <<pipeline, pc, row, report, exception, extract>>

-----------------------------------------------------------------------------
(* Special values *)

NaN == -1
Inf == 2000000000
NoneValue == "None"
RiskError == -2

FP == 10000

IsNaN(x) == x = NaN
NotNa(x) == x # NaN
IsNum(x) == x # NaN /\ x # Inf /\ x >= 0

(* IEEE comparisons: false as soon as one side is NaN *)
Ge(a, b) == a # NaN /\ b # NaN /\ a >= b
Gt(a, b) == a # NaN /\ b # NaN /\ a > b
Lt(a, b) == a # NaN /\ b # NaN /\ a < b
Le(a, b) == a # NaN /\ b # NaN /\ a <= b

-----------------------------------------------------------------------------
(* Fixed-point arithmetic *)

RDiv(a, b) == (a + (b \div 2)) \div b

RECURSIVE Pow2(_)
Pow2(n) == IF n <= 0 THEN 1 ELSE 2 * Pow2(n - 1)

LN2E6 == 693147

RECURSIVE ExpSeries(_, _, _, _)
ExpSeries(r, n, t, s) ==
    IF n > 8 THEN s
    ELSE LET t2 == RDiv(t * r, n * FP) IN ExpSeries(r, n + 1, t2, s + t2)

(* exp(x / FP) * FP *)
Exp(x) ==
    LET k == (x * 100) \div LN2E6
        r == x - RDiv(k * LN2E6, 100)
        s == ExpSeries(r, 1, FP, FP)
    IN  IF k >= 0 THEN s * Pow2(k)
        ELSE IF -k >= 30 THEN 0
        ELSE RDiv(s, Pow2(-k))

RECURSIVE HalvingsOf(_, _)
HalvingsOf(x, k) == IF x \div Pow2(k) >= 2 * FP THEN HalvingsOf(x, k + 1) ELSE k

RECURSIVE DoublingsOf(_, _)
DoublingsOf(x, j) == IF x * Pow2(j) < FP THEN DoublingsOf(x, j + 1) ELSE j

RECURSIVE LnSeries(_, _, _, _)
LnSeries(z2, n, t, s) ==
    IF n > 9 THEN s
    ELSE LET t2 == RDiv(t * z2, FP) IN LnSeries(z2, n + 2, t2, s + RDiv(t2, n))

(* ln(x / FP) * FP, for x > 0 *)
Ln(x) ==
    LET k == HalvingsOf(x, 0)
        j == DoublingsOf(x, 0)
        m == IF k > 0 THEN RDiv(x, Pow2(k)) ELSE x * Pow2(j)
        z == RDiv((m - FP) * FP, m + FP)
        z2 == RDiv(z * z, FP)
    IN  RDiv((k - j) * LN2E6, 100) + 2 * LnSeries(z2, 3, z, z)

Min(a, b) == IF a <= b THEN a ELSE b
Max(a, b) == IF a >= b THEN a ELSE b

(* round(x) of a fixed-point value, as a fixed-point value *)
RoundFP(x) == RDiv(x, FP) * FP

-----------------------------------------------------------------------------
(* Input domains: representative values of each extract column *)

Pipelines == {"core", "auto", "nopdf"}

AgeValues        == {NaN, 16, 70}
GenderValues     == {NoneValue, "Male", "Female"}
CreatinineValues == {NaN, 0, 70, 110, 250}
HeightValues     == {NaN, 150}
PriorValues      == {NaN, 70}
ACRValues        == {NaN, 0, 1, 3, 30, 45, 300}
RawDateValues    == {"valid", "missing", "malformed"}
BPValues         == {<<120, 70>>, <<135, 85>>, <<150, 95>>}
HbA1cValues      == {NaN, 60}
EMISValues       == {"No EMIS CKD entry", "CKD stage 3"}
DaysValues       == {50, 100, 400}

-----------------------------------------------------------------------------
(* eGFR *)

LN_0_9938_E7 == -62193

(* CKD-EPI 2009 for adults; conv is the umol/L per mg/dL factor times FP *)
CKD_EPI(Age, Gender, Creatinine, conv) ==
    LET is_female == Gender = "Female"
        K == IF is_female THEN 7000 ELSE 9000
        alpha == IF is_female THEN -2410 ELSE -3020
        lnScr == Ln(Creatinine * FP) - Ln(conv) - Ln(K)
        lnE == Ln(142 * FP)
               + RDiv(alpha * Min(lnScr, 0), FP)
               + RDiv(-12000 * Max(lnScr, 0), FP)
               + RDiv(Age * LN_0_9938_E7, 1000)
               + (IF is_female THEN Ln(10120) ELSE 0)
    IN  Exp(lnE)

(* Bedside Schwartz: 0.413 * Height / (Creatinine / 88.42) *)
Schwartz(Height, Creatinine) == RDiv(413 * 8842 * Height, Creatinine * 10)

(* Code/CKD_core.py and CKD_auto_nopdf.py *)
calculate_eGFR(Age, Gender, Creatinine, Height) ==
    IF IsNaN(Age) \/ Gender = NoneValue \/ IsNaN(Creatinine) THEN NaN
    ELSE IF Age < 18
         THEN IF IsNaN(Height) THEN NaN
              ELSE IF Creatinine = 0 THEN Inf
              ELSE Schwartz(Height, Creatinine)
         ELSE IF Creatinine = 0 THEN Inf
              ELSE CKD_EPI(Age, Gender, Creatinine, 884200)

(* CKD_auto.py: the second definition replaces the first, which held the
   missing-value guard; a missing Gender compares unequal to 'Female' *)
calculate_eGFR_auto(Age, Gender, Creatinine) ==
    IF IsNaN(Creatinine) \/ IsNaN(Age) THEN NaN
    ELSE IF Creatinine = 0 THEN Inf
    ELSE CKD_EPI(Age, Gender, Creatinine, 884000)

(* a zero Creatinine divides by zero: inf from a numpy scalar, an exception
   from a Python float *)
DividesByZero(pl, Age, Gender, Creatinine, Height) ==
    IF pl = "auto" THEN Creatinine = 0
    ELSE calculate_eGFR(Age, Gender, Creatinine, Height) = Inf

-----------------------------------------------------------------------------
(* CKD stage *)

(* classify_CKD_stage with the Stage 2 band opened at 60: eGFR > 60 *)
classify_CKD_stage_strict(eGFR) ==
    IF IsNaN(eGFR) THEN NoneValue
    ELSE IF eGFR >= 90 * FP THEN "Stage 1"
    ELSE IF eGFR > 60 * FP THEN "Stage 2"
    ELSE IF eGFR >= 45 * FP THEN "Stage 3A"
    ELSE IF eGFR >= 30 * FP THEN "Stage 3B"
    ELSE IF eGFR >= 15 * FP THEN "Stage 4"
    ELSE IF 0 < eGFR /\ eGFR < 15 * FP THEN "Stage 5"
    ELSE "No Data"

(* Code/CKD_core.py *)
classify_CKD_stage(eGFR) ==
    IF IsNaN(eGFR) THEN NoneValue
    ELSE IF eGFR >= 90 * FP THEN "Stage 1"
    ELSE IF eGFR >= 60 * FP THEN "Stage 2"
    ELSE IF eGFR >= 45 * FP THEN "Stage 3A"
    ELSE IF eGFR >= 30 * FP THEN "Stage 3B"
    ELSE IF eGFR >= 15 * FP THEN "Stage 4"
    ELSE IF 0 < eGFR /\ eGFR < 15 * FP THEN "Stage 5"
    ELSE "No Data"

(* CKD_auto.py: no missing-value branch, every comparison with NaN is false *)
classify_CKD_stage_auto(eGFR) ==
    IF Ge(eGFR, 90 * FP) THEN "Stage 1"
    ELSE IF Ge(eGFR, 60 * FP) THEN "Stage 2"
    ELSE IF Ge(eGFR, 45 * FP) THEN "Stage 3a"
    ELSE IF Ge(eGFR, 30 * FP) THEN "Stage 3b"
    ELSE IF Ge(eGFR, 15 * FP) THEN "Stage 4"
    ELSE "Stage 5"

(* CKD_auto_nopdf.py *)
classify_CKD_stage_nopdf(eGFR) ==
    IF IsNaN(eGFR) THEN NoneValue ELSE classify_CKD_stage_auto(eGFR)


-----------------------------------------------------------------------------
(* KFRE risk, in hundredths of a percent *)

LNLN_SURVIVAL_5YR == -31247
LNLN_SURVIVAL_2YR == -44002

(* KFRE with 1 - S^exp(L) replaced by its first-order term exp(L) * (-ln S) *)
KFRE_first_order(Age, sex, eGFR, ACR, lnlnS) ==
    LET Age_centered == Age * 1000 - 70360
        Sex_centered == sex * FP - 5642
        eGFR_centered == RDiv(eGFR, 5) - 72220
        ACR_ln_centered == Ln(ACR) - Ln(1130) - 51370
        L == RDiv(-2201 * Age_centered, FP) + RDiv(2467 * Sex_centered, FP)
             - RDiv(5567 * eGFR_centered, FP) + RDiv(4510 * ACR_ln_centered, FP)
        M == L + lnlnS
    IN  IF M > 3 * FP THEN 200000 ELSE Exp(M)

(* Code/CKD_core.py, CKD_auto_nopdf.py: 1 - S^exp(L), as 1 - exp(-exp(L + ln(-ln S))),
   times 100 and rounded to two decimals *)
KFRE(Age, sex, eGFR, ACR, lnlnS) ==
    IF eGFR = Inf THEN 0
    ELSE
    LET Age_centered == Age * 1000 - 70360
        Sex_centered == sex * FP - 5642
        eGFR_centered == RDiv(eGFR, 5) - 72220
        ACR_ln_centered == Ln(ACR) - Ln(1130) - 51370
        L == RDiv(-2201 * Age_centered, FP) + RDiv(2467 * Sex_centered, FP)
             - RDiv(5567 * eGFR_centered, FP) + RDiv(4510 * ACR_ln_centered, FP)
        M == L + lnlnS
    IN  IF M > 3 * FP THEN 10000
        ELSE LET u == Exp(M) IN RDiv((FP - Exp(-u)) * 10000, FP)

(* CKD_auto.py: a logistic score, not rounded yet *)
calculate_KFRE(Age, sex, eGFR, ACR, intercept) ==
    IF IsNaN(eGFR) \/ IsNaN(Age) THEN NaN
    ELSE IF eGFR = Inf THEN 0
    ELSE
    LET linear_predictor == intercept + 120 * Age + 2200 * sex
                            - RDiv(150 * eGFR, FP) + RDiv(120 * ACR, FP)
    IN  RDiv(10000 * FP, FP + Exp(-linear_predictor))

(* Series.round() of a risk: to a whole percent *)
RoundRisk(r) == IF IsNaN(r) THEN NaN ELSE RDiv(r, 100) * 100

(* Series.round() of an eGFR *)
RoundEGFRValue(e) == IF IsNaN(e) \/ e = Inf THEN e ELSE RoundFP(e)

-----------------------------------------------------------------------------
(* ACR grade, stage overrides, BP target and flag *)

INSUFFICIENT == "Error: Insufficient data"

(* Code/CKD_core.py *)
classify_CKD_ACR_grade(ACR) ==
    IF Lt(ACR, 3 * FP) THEN "A1" ELSE IF Lt(ACR, 30 * FP) THEN "A2" ELSE "A3"

(* CKD_auto.py, CKD_auto_nopdf.py *)
classify_CKD_ACR_grade_auto(ACR) ==
    IF Le(ACR, 3 * FP) THEN "A1" ELSE IF Lt(ACR, 30 * FP) THEN "A2" ELSE "A3"

(* NormalFunctionRule with the eGFR comparison turned round *)
NormalFunctionRule_flipped(r) ==
    /\ NotNa(r.ACR) /\ NotNa(r.eGFR) /\ r.Date # "NaT"
    /\ r.ACR < 3 * FP /\ r.eGFR < 60 * FP

(* NormalFunctionRule with the eGFR bound raised to the Stage 1 band *)
NormalFunctionRule_stage1_only(r) ==
    /\ NotNa(r.ACR) /\ NotNa(r.eGFR) /\ r.Date # "NaT"
    /\ r.ACR < 3 * FP /\ r.eGFR >= 90 * FP

(* Code/CKD_core.py: the condition of both "Normal Function" overrides *)
NormalFunctionRule(r) ==
    /\ NotNa(r.ACR) /\ NotNa(r.eGFR) /\ r.Date # "NaT"
    /\ r.ACR < 3 * FP /\ r.eGFR > 60 * FP

(* CKD_auto.py compares Date with "missing", CKD_auto_nopdf.py with "":
   no value of the datetime column equals either *)
NormalFunctionRule_auto(r, missing_text) ==
    Le(r.ACR, 3 * FP) /\ Gt(r.eGFR, 60 * FP) /\ r.Date # missing_text

MissingDateText(pl) == IF pl = "auto" THEN "missing" ELSE ""

Stages3to5(pl) ==
    IF pl = "core" THEN {"Stage 3A", "Stage 3B", "Stage 4", "Stage 5"}
    ELSE {"Stage 3a", "Stage 3b", "Stage 4", "Stage 5"}

Indicated(b) == IF b THEN "Indicated on the basis of risk calculation" ELSE "Not Indicated"

NumericRisk(r) == IF r = RiskError THEN NaN ELSE r

Nephrology_Referral(pl, r) ==
    Indicated(r.CKD_Stage \in Stages3to5(pl) /\
              IF pl = "auto" THEN Le(300, r.risk_5yr) /\ Le(r.risk_5yr, 500)
              ELSE Ge(NumericRisk(r.risk_5yr), 500))

Multidisciplinary_Care(pl, r) ==
    Indicated(r.CKD_Stage \in Stages3to5(pl) /\ Gt(NumericRisk(r.risk_2yr), 1000))

Modality_Education(pl, r) ==
    Indicated(r.CKD_Stage \in Stages3to5(pl) /\ Gt(NumericRisk(r.risk_2yr), 4000))

BP_Target(pl, r) ==
    IF pl = "core"
    THEN IF NotNa(r.ACR) /\ r.ACR >= 70 * FP THEN "<130/80"
         ELSE IF NotNa(r.HbA1c) /\ r.HbA1c > 53 THEN "<130/80"
         ELSE "<140/90"
    ELSE IF Ge(r.ACR, 70 * FP) \/ ~IsNaN(r.HbA1c) THEN "<130/80" ELSE "<140/90"

BP_Flag(r, target) ==
    IF \/ (Ge(r.Systolic_BP, 140) \/ Ge(r.Diastolic_BP, 90)) /\ target = "<140/90"
       \/ (Ge(r.Systolic_BP, 130) \/ Ge(r.Diastolic_BP, 80)) /\ target = "<130/80"
    THEN "Above Target" ELSE "On Target"


-----------------------------------------------------------------------------
(* Triage: the report layer's review message *)

NoEMISEntry == {"EMIS CKD entry missing", "No EMIS CKD entry"}

(* pd.to_numeric(text, errors='coerce') of an ACR grade "A1".."A3" *)
ToNumericGrade(grade) == NaN

(* Code/CKD_pdf_files_new.py generate_patient_pdf: every date column is
   rewritten as text, a missing date as "N/A" *)
FormattedDate(Date) == IF Date = "valid" THEN "dd-mm-YYYY" ELSE "N/A"

(* pd.isna of a text cell *)
IsNaText(x) == x = NoneValue

(* ckd_review without its final else: a stage outside both lists falls off
   the end of the function, which returns None *)
ckd_review_no_fallback(r, days_since_eGFR) ==
    LET ACR == r.ACR
        risk_5yr == NumericRisk(r.risk_5yr)
    IN  IF r.EMIS_CKD_Code \notin NoEMISEntry /\ r.CKD_Stage = "Normal Function"
        THEN "Incorrect EMIS Coding"
        ELSE IF r.Date = "valid"
        THEN IF r.CKD_Stage \in {"Stage 1", "Stage 2"}
             THEN IF days_since_eGFR > 365 \/ Ge(ACR, 3 * FP) \/ r.BP_Flag = "Above Target"
                  THEN "Review Required (CKD Stage 1-2 with >1 year since last eGFR or ACR >3)"
                  ELSE "No immediate review required"
             ELSE IF r.CKD_Stage \in {"Stage 3", "Stage 3A", "Stage 3B", "Stage 4", "Stage 5"}
             THEN IF Ge(ACR, 30 * FP) \/ Gt(risk_5yr, 500) \/ days_since_eGFR > 180
                  THEN "Review Required (CKD Stage 3-5 with >6 months since last eGFR, ACR >30, or high-risk)"
                  ELSE IF days_since_eGFR > 90
                  THEN "Review Required (CKD Stage 3-5 with >3 months since last eGFR)"
                  ELSE "No immediate review required"
             ELSE NoneValue
        ELSE "Review Required (eGFR date unavailable)"

(* Code/CKD_html_files.py *)
ckd_review(r, days_since_eGFR) ==
    LET ACR == r.ACR
        risk_5yr == NumericRisk(r.risk_5yr)
    IN  IF r.EMIS_CKD_Code \notin NoEMISEntry /\ r.CKD_Stage = "Normal Function"
        THEN "Incorrect EMIS Coding"
        ELSE IF r.Date = "valid"
        THEN IF r.CKD_Stage \in {"Stage 1", "Stage 2"}
             THEN IF days_since_eGFR > 365 \/ Ge(ACR, 3 * FP) \/ r.BP_Flag = "Above Target"
                  THEN "Review Required (CKD Stage 1-2 with >1 year since last eGFR or ACR >3)"
                  ELSE "No immediate review required"
             ELSE IF r.CKD_Stage \in {"Stage 3", "Stage 3A", "Stage 3B", "Stage 4", "Stage 5"}
             THEN IF Ge(ACR, 30 * FP) \/ Gt(risk_5yr, 500) \/ days_since_eGFR > 180
                  THEN "Review Required (CKD Stage 3-5 with >6 months since last eGFR, ACR >30, or high-risk)"
                  ELSE IF days_since_eGFR > 90
                  THEN "Review Required (CKD Stage 3-5 with >3 months since last eGFR)"
                  ELSE "No immediate review required"
             ELSE "Normal Renal Function"
        ELSE "Review Required (eGFR date unavailable)"

(* CKD_auto.py, CKD_auto_nopdf.py *)
review_message(r, days_since_eGFR) ==
    LET CKD_ACR == ToNumericGrade(r.CKD_ACR)
        risk_5yr == NumericRisk(r.risk_5yr)
    IN  IF r.Date = "valid"
        THEN IF r.CKD_Stage \in {"Stage 1", "Stage 2"}
             THEN IF days_since_eGFR > 365 \/ Gt(CKD_ACR, 3 * FP)
                  THEN "Review Required (CKD Stage 1-2 with >1 year since last eGFR or ACR >3)"
                  ELSE "No immediate review required"
             ELSE IF r.CKD_Stage \in {"Stage 3", "Stage 3a", "Stage 3b", "Stage 4", "Stage 5"}
             THEN IF Gt(CKD_ACR, 30 * FP) \/ Gt(risk_5yr, 500) \/ days_since_eGFR > 180
                  THEN "Review Required (CKD Stage 3-5 with >6 months since last eGFR, ACR >30, or high-risk)"
                  ELSE IF days_since_eGFR > 90
                  THEN "Review Required (CKD Stage 3-5 with >3 months since last eGFR)"
                  ELSE "No immediate review required"
             ELSE "No CKD stage specified"
        ELSE "Review Required (eGFR date unavailable)"

(* Code/CKD_pdf_files_new.py *)
compute_review_message(r) ==
    LET eGFR == r.eGFR
        ACR == r.ACR
        risk_5yr == NumericRisk(r.risk_5yr)
        Sample_Date == FormattedDate(r.Date)
    IN  IF r.CKD_Stage \in {"Stage 1", "Stage 2"}
        THEN IF Gt(ACR, 3 * FP) THEN "Review Required - CKD Stage 1-2 with ACR > 3"
             ELSE IF IsNaN(eGFR) \/ IsNaText(Sample_Date)
             THEN "Review Required - eGFR date unavailable"
             ELSE "General Review - CKD Stage 1-2"
        ELSE IF r.CKD_Stage \in {"Stage 3A", "Stage 3B", "Stage 4", "Stage 5"}
        THEN IF Lt(eGFR, 30 * FP) THEN "Review Required - CKD Stage 3-5 with eGFR < 30"
             ELSE IF Ge(ACR, 30 * FP) THEN "Review Required - CKD Stage 3-5 with ACR >= 30"
             ELSE IF Gt(risk_5yr, 500) THEN "Review Required - CKD Stage 3-5 with 5-year risk > 5%"
             ELSE IF IsNaN(eGFR) \/ IsNaText(Sample_Date)
             THEN "Review Required - eGFR date unavailable"
             ELSE "General Review - CKD Stage 3-5"
        ELSE IF r.CKD_Stage = "Normal Function" THEN "No Immediate Review Required"
        ELSE "General Review - Unknown CKD Stage"

-----------------------------------------------------------------------------
(* The pipeline: one record taken through the steps of its variant, in the
   order of the script.  An input column is drawn when the first step that
   reads it runs. *)

Order(pl) ==
    IF pl = "core"
    THEN <<"startup", "egfr", "round", "stage", "kfre", "acr", "normal", "referral", "bp",
           "proteinuria", "contra", "dose", "statin", "recommend", "triage">>
    ELSE IF pl = "auto"
    THEN <<"egfr", "stage", "kfre", "round", "acr", "normal", "referral", "aki", "bp", "triage">>
    ELSE <<"egfr", "stage", "kfre", "acr", "normal", "referral", "aki", "bp", "triage">>

StepAt(pl, i) == IF i <= Len(Order(pl)) THEN Order(pl)[i] ELSE "done"

Crashed == 0

(* the exception that ended the run, and the step that raised it *)
NoException == [type |-> "none", step |-> "none"]

Raised(type, step) == [type |-> type, step |-> step]

Step == IF pc = Crashed THEN "crashed" ELSE StepAt(pipeline, pc)

Done == Step = "done"

(* whether step name s has already run *)
Ran(s) == pc # Crashed /\ \E i \in 1..Len(Order(pipeline)) : Order(pipeline)[i] = s /\ i < pc

(* pd.to_datetime(..., errors='coerce') *)
ToDatetime(raw) == IF raw = "valid" THEN "valid" ELSE "NaT"

Init ==
    /\ pipeline \in Pipelines
    /\ pc = 1
    /\ report = NoneValue
    /\ exception = NoException
    /\ extract = <<>>
    /\ \E a \in AgeValues, g \in GenderValues, c \in CreatinineValues,
          h \in HeightValues, p \in PriorValues :
         row = [Age |-> a, Gender |-> g, Creatinine |-> c, Height |-> h,
                Creatinine_3m_prior |-> p,
                ACR |-> NaN, Date |-> "unread", Systolic_BP |-> NaN, Diastolic_BP |-> NaN,
                HbA1c |-> NaN, EMIS_CKD_Code |-> "unread",
                eGFR |-> NaN, eGFR_3m_prior |-> NaN,
                CKD_Stage |-> NoneValue, CKD_Stage_3m |-> NoneValue,
                risk_2yr |-> NaN, risk_5yr |-> NaN, frame |-> "merged",
                CKD_ACR |-> NoneValue, Nephrology_Referral |-> NoneValue,
                Multidisciplinary_Care |-> NoneValue, Modality_Education |-> NoneValue,
                BP_Target |-> NoneValue, BP_Flag |-> NoneValue,
                days_since_eGFR |-> NaN, review_message |-> NoneValue,
                ACR_raw |-> NaN, Proteinuria_Flag |-> NoneValue,
                Medications |-> "unread", Statin_Recommendation |-> NoneValue]

eGFROf(pl, r, Creatinine) ==
    IF pl = "auto" THEN calculate_eGFR_auto(r.Age, r.Gender, Creatinine)
    ELSE calculate_eGFR(r.Age, r.Gender, Creatinine, r.Height)

(* eGFR and eGFR_3m_prior columns *)
CalculateEGFR ==
    /\ Step = "egfr"
    /\ row' = [row EXCEPT !.eGFR = eGFROf(pipeline, row, row.Creatinine),
                          !.eGFR_3m_prior = eGFROf(pipeline, row, row.Creatinine_3m_prior)]
    /\ pc' = pc + 1
    /\ UNCHANGED <<pipeline, report, exception, extract>>

(* the division by zero raised as ZeroDivisionError: the run aborts *)
CalculateEGFRRaises ==
    /\ Step = "egfr"
    /\ DividesByZero(pipeline, row.Age, row.Gender, row.Creatinine, row.Height)
    /\ pc' = Crashed
    /\ exception' = Raised("ZeroDivisionError", "egfr")
    /\ UNCHANGED <<pipeline, row, report, extract>>


(* Rounding.  core: round(x) of each eGFR, then astype('Int64'); an infinite
   eGFR cannot be converted and the run aborts.  auto: Series.round() of the
   eGFRs and of the risks. *)
RoundEGFR ==
    /\ Step = "round"
    /\ IF pipeline = "core" /\ (row.eGFR = Inf \/ row.eGFR_3m_prior = Inf)
       THEN /\ pc' = Crashed
            /\ exception' = Raised("OverflowError", "round")
            /\ row' = row
       ELSE /\ pc' = pc + 1
            /\ row' = [row EXCEPT !.eGFR = RoundEGFRValue(row.eGFR),
                                  !.eGFR_3m_prior = RoundEGFRValue(row.eGFR_3m_prior),
                                  !.risk_2yr = IF pipeline = "auto" THEN RoundRisk(@) ELSE @,
                                  !.risk_5yr = IF pipeline = "auto" THEN RoundRisk(@) ELSE @]
            /\ exception' = exception
    /\ UNCHANGED <<pipeline, report, extract>>

StageOf(pl, eGFR) ==
    IF pl = "core" THEN classify_CKD_stage(eGFR)
    ELSE IF pl = "auto" THEN classify_CKD_stage_auto(eGFR)
    ELSE classify_CKD_stage_nopdf(eGFR)

(* CKD_Stage and CKD_Stage_3m columns *)
ClassifyStage ==
    /\ Step = "stage"
    /\ row' = [row EXCEPT !.CKD_Stage = StageOf(pipeline, row.eGFR),
                          !.CKD_Stage_3m = StageOf(pipeline, row.eGFR_3m_prior)]
    /\ pc' = pc + 1
    /\ UNCHANGED <<pipeline, report, exception, extract>>

(* ACR column as read: fillna(0) *)
FillACR(a) == IF IsNaN(a) THEN 0 ELSE a * FP

(* the value that replaces ACR = 0 before the logarithm *)
ACRSubstitute(pl) == IF pl = "core" THEN 190 ELSE 100

ReplaceZeroACR(pl, ACR) == IF ACR = 0 THEN ACRSubstitute(pl) ELSE ACR

sexOf(Gender) == IF Gender = "Male" THEN 1 ELSE 0

(* required_columns = ['Age', 'Gender', 'eGFR', 'ACR'] *)
MissingRequired(r, ACR) ==
    IsNaN(r.Age) \/ r.Gender = NoneValue \/ IsNaN(r.eGFR) \/ IsNaN(ACR)

(* KFRESplit without the CKD_Stage sentinel of the missing rows *)
KFRESplit_keeps_stage(pl, r, ACR) ==
    IF MissingRequired(r, ACR)
    THEN [r EXCEPT !.ACR = ACR, !.frame = "missing",
                   !.risk_5yr = RiskError, !.risk_2yr = RiskError]
    ELSE LET acr == ReplaceZeroACR(pl, ACR) IN
         [r EXCEPT !.ACR = acr, !.frame = "complete",
                   !.risk_5yr = KFRE(r.Age, sexOf(r.Gender), r.eGFR, acr, LNLN_SURVIVAL_5YR),
                   !.risk_2yr = KFRE(r.Age, sexOf(r.Gender), r.eGFR, acr, LNLN_SURVIVAL_2YR)]

(* core, nopdf: the split into complete and missing rows, the KFRE risks of
   the complete rows, the sentinels of the missing rows, and the concat.  A
   complete row whose Gender gender_mapping does not hold has a NaN sex and
   is removed by dropna(subset=['sex']): it is in neither frame ("dropped") *)
KFRESplit(pl, r, ACR) ==
    IF MissingRequired(r, ACR)
    THEN [r EXCEPT !.ACR = ACR, !.frame = "missing",
                   !.risk_5yr = RiskError, !.risk_2yr = RiskError,
                   !.CKD_Stage = INSUFFICIENT]
    ELSE IF r.Gender \notin {"Male", "Female"}
    THEN [r EXCEPT !.ACR = ACR, !.frame = "dropped"]
    ELSE LET acr == ReplaceZeroACR(pl, ACR) IN
         [r EXCEPT !.ACR = acr, !.frame = "complete",
                   !.risk_5yr = KFRE(r.Age, sexOf(r.Gender), r.eGFR, acr, LNLN_SURVIVAL_5YR),
                   !.risk_2yr = KFRE(r.Age, sexOf(r.Gender), r.eGFR, acr, LNLN_SURVIVAL_2YR)]

(* auto: calculate_KFRE on every row *)
KFREAuto(r, ACR) ==
    [r EXCEPT !.ACR = ACR,
              !.risk_2yr = calculate_KFRE(r.Age, sexOf(r.Gender), r.eGFR, ACR, -2200),
              !.risk_5yr = calculate_KFRE(r.Age, sexOf(r.Gender), r.eGFR, ACR, -5300)]

(* the ACR cell is drawn here; ACR_raw keeps it as read, before fillna(0) *)
CalculateRisk ==
    /\ Step = "kfre"
    /\ \E a \in ACRValues :
         LET r == [row EXCEPT !.ACR_raw = IF IsNaN(a) THEN NaN ELSE a * FP]
         IN  row' = IF pipeline = "auto" THEN KFREAuto(r, FillACR(a))
                    ELSE KFRESplit(pipeline, r, FillACR(a))
    /\ pc' = pc + 1
    /\ UNCHANGED <<pipeline, report, exception, extract>>

ACRGradeOf(pl, ACR) ==
    IF pl = "core" THEN classify_CKD_ACR_grade(ACR) ELSE classify_CKD_ACR_grade_auto(ACR)

ClassifyACR ==
    /\ Step = "acr"
    /\ row' = [row EXCEPT !.CKD_ACR = ACRGradeOf(pipeline, row.ACR)]
    /\ pc' = pc + 1
    /\ UNCHANGED <<pipeline, report, exception, extract>>

(* the "Normal Function" override of CKD_Stage (core: and of CKD_Stage_3m,
   from the same current ACR and eGFR); auto, nopdf: then "Normal/Stage1" *)
NormalOverride(pl, r) ==
    IF pl = "core"
    THEN [r EXCEPT !.CKD_Stage = IF NormalFunctionRule(r) THEN "Normal Function" ELSE @,
                   !.CKD_Stage_3m = IF NormalFunctionRule(r) THEN "Normal Function" ELSE @]
    ELSE LET s1 == IF NormalFunctionRule_auto(r, MissingDateText(pl))
                   THEN "Normal Function" ELSE r.CKD_Stage
             s2 == IF s1 = "Stage 1" /\ r.Date = MissingDateText(pl)
                   THEN "Normal/Stage1" ELSE s1
         IN  [r EXCEPT !.CKD_Stage = s2]

NormalFunctionOverride ==
    /\ Step = "normal"
    /\ \E d \in RawDateValues :
         row' = NormalOverride(pipeline, [row EXCEPT !.Date = ToDatetime(d)])
    /\ pc' = pc + 1
    /\ UNCHANGED <<pipeline, report, exception, extract>>

ReferralFlags ==
    /\ Step = "referral"
    /\ row' = [row EXCEPT !.Nephrology_Referral = Nephrology_Referral(pipeline, row),
                          !.Multidisciplinary_Care = Multidisciplinary_Care(pipeline, row),
                          !.Modality_Education = Modality_Education(pipeline, row)]
    /\ pc' = pc + 1
    /\ UNCHANGED <<pipeline, report, exception, extract>>

(* auto, nopdf: CKD_Stage_3m == "Normal Function" overwrites CKD_Stage *)
AKIOverrideOf(r) ==
    [r EXCEPT !.CKD_Stage = IF r.CKD_Stage_3m = "Normal Function"
                            THEN "Acute Kidney Injury" ELSE @]

AKIOverride ==
    /\ Step = "aki"
    /\ row' = AKIOverrideOf(row)
    /\ pc' = pc + 1
    /\ UNCHANGED <<pipeline, report, exception, extract>>

BPTargetAndFlag ==
    /\ Step = "bp"
    /\ \E bp \in BPValues, h \in HbA1cValues :
         LET r == [row EXCEPT !.Systolic_BP = bp[1], !.Diastolic_BP = bp[2], !.HbA1c = h]
             target == BP_Target(pipeline, r)
         IN  row' = [r EXCEPT !.BP_Target = target, !.BP_Flag = BP_Flag(r, target)]
    /\ pc' = pc + 1
    /\ UNCHANGED <<pipeline, report, exception, extract>>

(* check_files_exist: a missing file is logged and the user is asked to press
   Enter; the run then proceeds whether or not the file was added *)
CheckFilesExist ==
    /\ Step = "startup"
    /\ pc' = pc + 1
    /\ UNCHANGED <<pipeline, row, report, exception, extract>>

(* Proteinuria_Flag column (the labels' greater-or-equal sign is written ">=") *)
Proteinuria_Flag(ACR) ==
    IF NotNa(ACR) /\ ACR >= 70 * FP THEN "Immediate Referral - Severe Proteinuria (ACR >=70)"
    ELSE IF NotNa(ACR) /\ ACR >= 30 * FP THEN "High Proteinuria - Urgent Referral (ACR 30-69)"
    ELSE IF NotNa(ACR) /\ ACR >= 3 * FP THEN "Raised Proteinuria - Consider Referral (ACR 3-29)"
    ELSE IF NotNa(ACR) /\ ACR = 190 THEN "Review Required (ACR Missing)"
    ELSE IF IsNaN(ACR) THEN "Review Required (ACR Missing)"
    ELSE "No Referral Needed"

ProteinuriaFlag ==
    /\ Step = "proteinuria"
    /\ row' = [row EXCEPT !.Proteinuria_Flag = Proteinuria_Flag(row.ACR)]
    /\ pc' = pc + 1
    /\ UNCHANGED <<pipeline, report, exception, extract>>

(* A reference file of the Dependencies folder: whether it exists, and its
   rows (drug name and eGFR threshold) *)
ReferenceFileValues ==
    {[exists |-> FALSE, rows |-> <<>>],
     [exists |-> TRUE, rows |-> <<>>],
     [exists |-> TRUE, rows |-> <<[drug |-> "Metformin", eGFR |-> 30]>>]}

(* The Medications column: ', '.join of the patient's medication names; NaN
   (NoneValue) for a row whose HC Number is NaN, which the left merge of the
   medication summary leaves unmatched *)
MedicationValues == {NoneValue, "", "Atorvastatin 20mg tablets", "Metformin 500mg tablets"}

(* the characters of the texts of the model: medication texts, drug names,
   and the SGLT2i recommendation texts *)
Chars(text) ==
    CASE text = "" ->
           <<>>
      [] text = "Atorvastatin 20mg tablets" ->
           <<"A", "t", "o", "r", "v", "a", "s", "t", "a", "t", "i", "n",
             " ", "2", "0", "m", "g", " ", "t", "a", "b", "l", "e", "t", "s">>
      [] text = "Metformin 500mg tablets" ->
           <<"M", "e", "t", "f", "o", "r", "m", "i", "n", " ", "5", "0",
             "0", "m", "g", " ", "t", "a", "b", "l", "e", "t", "s">>
      [] text = "metformin 500mg" ->
           <<"m", "e", "t", "f", "o", "r", "m", "i", "n", " ", "5", "0",
             "0", "m", "g">>
      [] text = "Ironorm drops" ->
           <<"I", "r", "o", "n", "o", "r", "m", " ", "d", "r", "o", "p", "s">>
      [] text = "Metformin" ->
           <<"M", "e", "t", "f", "o", "r", "m", "i", "n">>
      [] text = "Iron" ->
           <<"I", "r", "o", "n">>
      [] text = "Atorvastatin" ->
           <<"A", "t", "o", "r", "v", "a", "s", "t", "a", "t", "i", "n">>
      [] text = "Dapagliflozin 10mg tablets" ->
           <<"D", "a", "p", "a", "g", "l", "i", "f", "l", "o", "z", "i",
             "n", " ", "1", "0", "m", "g", " ", "t", "a", "b", "l", "e",
             "t", "s">>
      [] text = "Empagliflozin 10mg tablets" ->
           <<"E", "m", "p", "a", "g", "l", "i", "f", "l", "o", "z", "i",
             "n", " ", "1", "0", "m", "g", " ", "t", "a", "b", "l", "e",
             "t", "s">>
      [] text = "nan" ->
           <<"n", "a", "n">>
      [] text = "dapagliflozin" ->
           <<"d", "a", "p", "a", "g", "l", "i", "f", "l", "o", "z", "i", "n">>
      [] text = "forxiga" ->
           <<"f", "o", "r", "x", "i", "g", "a">>
      [] text = "empagliflozin" ->
           <<"e", "m", "p", "a", "g", "l", "i", "f", "l", "o", "z", "i", "n">>
      [] text = "jardiance" ->
           <<"j", "a", "r", "d", "i", "a", "n", "c", "e">>
      [] text = "metformin" ->
           <<"m", "e", "t", "f", "o", "r", "m", "i", "n">>
      [] text = "Unable to determine - Missing data" ->
           <<"U", "n", "a", "b", "l", "e", " ", "t", "o", " ", "d", "e",
             "t", "e", "r", "m", "i", "n", "e", " ", "-", " ", "M", "i",
             "s", "s", "i", "n", "g", " ", "d", "a", "t", "a">>
      [] text = "Not recommended - eGFR < 15" ->
           <<"N", "o", "t", " ", "r", "e", "c", "o", "m", "m", "e", "n",
             "d", "e", "d", " ", "-", " ", "e", "G", "F", "R", " ", "<",
             " ", "1", "5">>
      [] text = "Not recommended - eGFR 15-25: only dapagliflozin suitable" ->
           <<"N", "o", "t", " ", "r", "e", "c", "o", "m", "m", "e", "n",
             "d", "e", "d", " ", "-", " ", "e", "G", "F", "R", " ", "1",
             "5", "-", "2", "5", ":", " ", "o", "n", "l", "y", " ", "d",
             "a", "p", "a", "g", "l", "i", "f", "l", "o", "z", "i", "n",
             " ", "s", "u", "i", "t", "a", "b", "l", "e">>
      [] text = "Not recommended - No diabetes diagnosis" ->
           <<"N", "o", "t", " ", "r", "e", "c", "o", "m", "m", "e", "n",
             "d", "e", "d", " ", "-", " ", "N", "o", " ", "d", "i", "a",
             "b", "e", "t", "e", "s", " ", "d", "i", "a", "g", "n", "o",
             "s", "i", "s">>
      [] text = "Not indicated based on ACR threshold" ->
           <<"N", "o", "t", " ", "i", "n", "d", "i", "c", "a", "t", "e",
             "d", " ", "b", "a", "s", "e", "d", " ", "o", "n", " ", "A",
             "C", "R", " ", "t", "h", "r", "e", "s", "h", "o", "l", "d">>
      [] text = "Continue current SGLT2i (dapagliflozin)" ->
           <<"C", "o", "n", "t", "i", "n", "u", "e", " ", "c", "u", "r",
             "r", "e", "n", "t", " ", "S", "G", "L", "T", "2", "i", " ",
             "(", "d", "a", "p", "a", "g", "l", "i", "f", "l", "o", "z",
             "i", "n", ")">>
      [] text = "Continue current SGLT2i (empagliflozin)" ->
           <<"C", "o", "n", "t", "i", "n", "u", "e", " ", "c", "u", "r",
             "r", "e", "n", "t", " ", "S", "G", "L", "T", "2", "i", " ",
             "(", "e", "m", "p", "a", "g", "l", "i", "f", "l", "o", "z",
             "i", "n", ")">>
      [] text = "Recommend SGLT2i (dapagliflozin, empagliflozin, or canagliflozin)" ->
           <<"R", "e", "c", "o", "m", "m", "e", "n", "d", " ", "S", "G",
             "L", "T", "2", "i", " ", "(", "d", "a", "p", "a", "g", "l",
             "i", "f", "l", "o", "z", "i", "n", ",", " ", "e", "m", "p",
             "a", "g", "l", "i", "f", "l", "o", "z", "i", "n", ",", " ",
             "o", "r", " ", "c", "a", "n", "a", "g", "l", "i", "f", "l",
             "o", "z", "i", "n", ")">>
      [] text = "Continue dapagliflozin" ->
           <<"C", "o", "n", "t", "i", "n", "u", "e", " ", "d", "a", "p",
             "a", "g", "l", "i", "f", "l", "o", "z", "i", "n">>
      [] text = "Consider dapagliflozin only" ->
           <<"C", "o", "n", "s", "i", "d", "e", "r", " ", "d", "a", "p",
             "a", "g", "l", "i", "f", "l", "o", "z", "i", "n", " ", "o",
             "n", "l", "y">>
      [] text = "Not recommended - eGFR too low" ->
           <<"N", "o", "t", " ", "r", "e", "c", "o", "m", "m", "e", "n",
             "d", "e", "d", " ", "-", " ", "e", "G", "F", "R", " ", "t",
             "o", "o", " ", "l", "o", "w">>
      [] text = "recommend" ->
           <<"r", "e", "c", "o", "m", "m", "e", "n", "d">>
      [] text = "dapagliflozin only" ->
           <<"d", "a", "p", "a", "g", "l", "i", "f", "l", "o", "z", "i",
             "n", " ", "o", "n", "l", "y">>
      [] text = "not recommended" ->
           <<"n", "o", "t", " ", "r", "e", "c", "o", "m", "m", "e", "n",
             "d", "e", "d">>
      [] text = "Not recommended" ->
           <<"N", "o", "t", " ", "r", "e", "c", "o", "m", "m", "e", "n",
             "d", "e", "d">>

UpperCase ==
    <<"A", "B", "C", "D", "E", "F", "G", "H", "I", "J", "K", "L", "M", 
      "N", "O", "P", "Q", "R", "S", "T", "U", "V", "W", "X", "Y", "Z">>
LowerCase ==
    <<"a", "b", "c", "d", "e", "f", "g", "h", "i", "j", "k", "l", "m", 
      "n", "o", "p", "q", "r", "s", "t", "u", "v", "w", "x", "y", "z">>

(* str.lower of one character (re.IGNORECASE compares the lowered characters) *)
Lower(c) ==
    IF \E i \in 1..Len(UpperCase) : UpperCase[i] = c
    THEN LowerCase[CHOOSE i \in 1..Len(UpperCase) : UpperCase[i] = c]
    ELSE c

(* str.lower *)
LowerChars(text) == [i \in 1..Len(Chars(text)) |-> Lower(Chars(text)[i])]

(* \w: a letter or a digit, among the characters of the texts *)
IsWordChar(c) == c \notin {" ", "(", ")", ",", "-", ":", "<"}

(* d occurs in t, as sequences of characters *)
Occurs(d, t) ==
    \E i \in 1..(Len(t) + 1) :
       /\ i + Len(d) - 1 <= Len(t)
       /\ \A k \in 1..Len(d) : t[i + k - 1] = d[k]

(* `drug in text`: case-sensitive substring containment *)
Contains(drug, text) == Occurs(Chars(drug), Chars(text))

(* re.search(r'\b' + re.escape(drug) + r'\b', text, re.IGNORECASE), for a
   drug name that begins and ends with a word character *)
re_search(drug, text) ==
    LET d == Chars(drug)
        t == Chars(text)
    IN  \E i \in 1..Len(t) :
           /\ i + Len(d) - 1 <= Len(t)
           /\ \A k \in 1..Len(d) : Lower(t[i + k - 1]) = Lower(d[k])
           /\ (i = 1 \/ ~IsWordChar(t[i - 1]))
           /\ (i + Len(d) - 1 = Len(t) \/ ~IsWordChar(t[i + Len(d)]))

(* the drugs of a reference file whose threshold is at or above the eGFR, in
   file order (a comparison with a NaN eGFR is false) *)
RECURSIVE DrugsAtOrAbove(_, _, _)
DrugsAtOrAbove(rows, eGFR, i) ==
    IF i > Len(rows) THEN <<>>
    ELSE (IF Le(eGFR, rows[i].eGFR * FP) THEN <<rows[i].drug>> ELSE <<>>)
         \o DrugsAtOrAbove(rows, eGFR, i + 1)

(* Code/CKD_core.py get_contraindicated_drugs / drug_adjustment: [] for a
   missing eGFR without opening the file; otherwise open() and the drugs
   whose threshold is at or above the eGFR *)
get_contraindicated_drugs(eGFR, file) ==
    IF IsNaN(eGFR) THEN [raised |-> "none", list |-> <<>>]
    ELSE IF ~file.exists THEN [raised |-> "FileNotFoundError", list |-> <<>>]
    ELSE [raised |-> "none", list |-> DrugsAtOrAbove(file.rows, eGFR, 1)]

(* CKD_auto.py, CKD_auto_nopdf.py get_contraindicated_drugs / drug_adjustment:
   the file is opened for every row *)
get_contraindicated_drugs_auto(eGFR, file) ==
    IF ~file.exists THEN [raised |-> "FileNotFoundError", list |-> <<>>]
    ELSE [raised |-> "none", list |-> DrugsAtOrAbove(file.rows, eGFR, 1)]

(* the listed drugs found in the medication text, by re.search or by `in` *)
RECURSIVE Prescribed(_, _, _, _)
Prescribed(list, medications, whole_word, i) ==
    IF i > Len(list) THEN <<>>
    ELSE (IF (IF whole_word THEN re_search(list[i], medications)
              ELSE Contains(list[i], medications))
          THEN <<list[i]>> ELSE <<>>)
         \o Prescribed(list, medications, whole_word, i + 1)

(* check_contraindications, and check_dose_adjustments of Code/CKD_core.py:
   the join of the listed drugs that re.search finds in the medication text,
   or the default; a NaN text is not a string *)
check_contraindications(medications, contraindicated_list, default) ==
    IF contraindicated_list = <<>> THEN [raised |-> "none", value |-> <<default>>]
    ELSE IF medications = NoneValue THEN [raised |-> "TypeError", value |-> <<>>]
    ELSE LET hits == Prescribed(contraindicated_list, medications, TRUE, 1) IN
         [raised |-> "none", value |-> IF hits = <<>> THEN <<default>> ELSE hits]

(* CKD_auto.py, CKD_auto_nopdf.py check_dose_adjustments: `drug in medications` *)
check_dose_adjustments_auto(medications, adjustment_list) ==
    IF adjustment_list = <<>> THEN [raised |-> "none", value |-> <<"No adjustments needed">>]
    ELSE IF medications = NoneValue THEN [raised |-> "TypeError", value |-> <<>>]
    ELSE LET hits == Prescribed(adjustment_list, medications, FALSE, 1) IN
         [raised |-> "none",
          value |-> IF hits = <<>> THEN <<"No adjustments needed">> ELSE hits]

(* the contraindicated_prescribed cell of a row, or the exception raised *)
contraindicated_prescribed(pl, r, file) ==
    LET got == IF pl = "core" THEN get_contraindicated_drugs(r.eGFR, file)
               ELSE get_contraindicated_drugs_auto(r.eGFR, file)
    IN  IF got.raised # "none" THEN [raised |-> got.raised, value |-> <<>>]
        ELSE check_contraindications(r.Medications, got.list, "No contraindications")

(* the dose_adjustment_prescribed cell of a row, or the exception raised *)
dose_adjustment_prescribed(pl, r, file) ==
    LET got == IF pl = "core" THEN get_contraindicated_drugs(r.eGFR, file)
               ELSE get_contraindicated_drugs_auto(r.eGFR, file)
    IN  IF got.raised # "none" THEN [raised |-> got.raised, value |-> <<>>]
        ELSE IF pl = "core"
             THEN check_contraindications(r.Medications, got.list, "No adjustments needed")
             ELSE check_dose_adjustments_auto(r.Medications, got.list)

(* Code/CKD_core.py: the outcome of one reference-file lookup for a row: the
   exception raised, or "none" *)
LookupRaises(r, file) == contraindicated_prescribed("core", r, file).raised

(* contraindicated_prescribed column; the Medications text and the state of
   contraindicated_drugs.csv are drawn here *)
ContraindicatedMedications ==
    /\ Step = "contra"
    /\ \E m \in MedicationValues, file \in ReferenceFileValues :
         LET r == [row EXCEPT !.Medications = m]
             e == LookupRaises(r, file)
         IN  /\ row' = r
             /\ IF e = "none" THEN pc' = pc + 1 /\ exception' = exception
                ELSE pc' = Crashed /\ exception' = Raised(e, "contra")
    /\ UNCHANGED <<pipeline, report, extract>>

(* dose_adjustment_prescribed column *)
DoseAdjustments ==
    /\ Step = "dose"
    /\ \E file \in ReferenceFileValues :
         LET e == LookupRaises(row, file)
         IN  IF e = "none" THEN pc' = pc + 1 /\ exception' = exception
             ELSE pc' = Crashed /\ exception' = Raised(e, "dose")
    /\ UNCHANGED <<pipeline, row, report, extract>>

(* statins.csv: whether it exists, and its lines *)
StatinFileValues ==
    {[exists |-> FALSE, rows |-> {}],
     [exists |-> TRUE, rows |-> {}],
     [exists |-> TRUE, rows |-> {"Atorvastatin"}]}

(* Statin_Recommendation of one row: `statin in NaN` raises TypeError, and so
   does the truth value of `pd.NA < 60` for a missing Int64 eGFR *)
Statin_Recommendation(r, statins) ==
    IF statins # {} /\ r.Medications = NoneValue THEN "TypeError"
    ELSE IF \E st \in statins : Contains(st, r.Medications) THEN "On Statin"
    ELSE IF IsNaN(r.eGFR) THEN "TypeError"
    ELSE IF r.eGFR < 60 * FP \/ r.Medications = NoneValue THEN "Consider Statin"
    ELSE "Not on Statin"

(* open(statins_file) and the Statin_Recommendation column *)
StatinRecommendation ==
    /\ Step = "statin"
    /\ \E file \in StatinFileValues :
         LET rec == Statin_Recommendation(row, file.rows) IN
         IF ~file.exists
         THEN pc' = Crashed /\ exception' = Raised("FileNotFoundError", "statin") /\ row' = row
         ELSE IF rec = "TypeError"
         THEN pc' = Crashed /\ exception' = Raised("TypeError", "statin") /\ row' = row
         ELSE /\ pc' = pc + 1
              /\ exception' = exception
              /\ row' = [row EXCEPT !.Statin_Recommendation = rec]
    /\ UNCHANGED <<pipeline, report, extract>>

(* check_recommendations: re.search over the medication text for the examples
   of each recommended drug class; recommended_medications is never empty,
   and a NaN text is not a string *)
check_recommendations(medications) ==
    IF medications = NoneValue THEN "TypeError" ELSE "searched"

(* Recommended_Medications column *)
RecommendedMedications ==
    /\ Step = "recommend"
    /\ IF check_recommendations(row.Medications) = "TypeError"
       THEN pc' = Crashed /\ exception' = Raised("TypeError", "recommend")
       ELSE pc' = pc + 1 /\ exception' = exception
    /\ UNCHANGED <<pipeline, row, report, extract>>

Reports(pl) == IF pl = "core" THEN {"ckd_review", "compute_review_message"}
               ELSE {"review_message"}

ReviewOf(rep, r, days) ==
    IF rep = "ckd_review" THEN ckd_review(r, days)
    ELSE IF rep = "compute_review_message" THEN compute_review_message(r)
    ELSE review_message(r, days)

(* the report layer reads the finished table and assigns the review message;
   days_since_eGFR is today minus Sample_Date *)
Triage ==
    /\ Step = "triage"
    /\ \E rep \in Reports(pipeline), e \in EMISValues, d \in DaysValues :
         LET days == IF row.Date = "valid" THEN d ELSE NaN
             r == [row EXCEPT !.EMIS_CKD_Code = e, !.days_since_eGFR = days]
         IN  /\ row' = [r EXCEPT !.review_message = ReviewOf(rep, r, days)]
             /\ report' = rep
    /\ pc' = pc + 1
    /\ UNCHANGED <<pipeline, exception, extract>>

Next ==
    \/ CheckFilesExist
    \/ CalculateEGFR
    \/ CalculateEGFRRaises
    \/ RoundEGFR
    \/ ClassifyStage
    \/ CalculateRisk
    \/ ClassifyACR
    \/ NormalFunctionOverride
    \/ ReferralFlags
    \/ AKIOverride
    \/ BPTargetAndFlag
    \/ ProteinuriaFlag
    \/ ContraindicatedMedications
    \/ DoseAdjustments
    \/ StatinRecommendation
    \/ RecommendedMedications
    \/ Triage

Spec == Init /\ [][Next]_vars


-----------------------------------------------------------------------------
(* The staging step of Code/CKD_core.py on its own: every rounded eGFR up to
   MaxEGFR, and a missing one, for the current and the prior column *)

MaxEGFR == 120

RoundedEGFRs == {NaN} \cup {e * FP : e \in 0..MaxEGFR}

StageStepIndex == CHOOSE i \in 1..Len(Order("core")) : Order("core")[i] = "stage"

InitStage ==
    /\ pipeline = "core"
    /\ pc = StageStepIndex
    /\ report = NoneValue
    /\ exception = NoException
    /\ extract = <<>>
    /\ \E e \in RoundedEGFRs, p \in RoundedEGFRs :
         row = [Age |-> 70, Gender |-> "Male", Creatinine |-> NaN, Height |-> NaN,
                Creatinine_3m_prior |-> NaN,
                ACR |-> NaN, Date |-> "unread", Systolic_BP |-> NaN, Diastolic_BP |-> NaN,
                HbA1c |-> NaN, EMIS_CKD_Code |-> "unread",
                eGFR |-> e, eGFR_3m_prior |-> p,
                CKD_Stage |-> NoneValue, CKD_Stage_3m |-> NoneValue,
                risk_2yr |-> NaN, risk_5yr |-> NaN, frame |-> "merged",
                CKD_ACR |-> NoneValue, Nephrology_Referral |-> NoneValue,
                Multidisciplinary_Care |-> NoneValue, Modality_Education |-> NoneValue,
                BP_Target |-> NoneValue, BP_Flag |-> NoneValue,
                days_since_eGFR |-> NaN, review_message |-> NoneValue,
                ACR_raw |-> NaN, Proteinuria_Flag |-> NoneValue,
                Medications |-> "unread", Statin_Recommendation |-> NoneValue]

NextStage == ClassifyStage

SpecStage == InitStage /\ [][NextStage]_vars


-----------------------------------------------------------------------------
(* The triage functions on their own: every stage label, date validity, ACR,
   5-year risk, BP flag and EMIS code *)

StageLabels ==
    {"Stage 1", "Stage 2", "Stage 3", "Stage 3A", "Stage 3B", "Stage 3a", "Stage 3b",
     "Stage 4", "Stage 5", "No Data", "Normal Function", "Normal/Stage1",
     "Acute Kidney Injury", INSUFFICIENT, NoneValue, "Stage 6"}

TriageStepIndex(pl) == CHOOSE i \in 1..Len(Order(pl)) : Order(pl)[i] = "triage"

InitTriage ==
    /\ pipeline \in Pipelines
    /\ pc = TriageStepIndex(pipeline)
    /\ report = NoneValue
    /\ exception = NoException
    /\ extract = <<>>
    /\ \E s \in StageLabels, d \in {"valid", "NaT"}, a \in {NaN, 1, 3, 30, 45},
          k \in {RiskError, NaN, 300, 800}, f \in {"On Target", "Above Target"},
          e \in {NaN, 20, 95} :
         row = [Age |-> 70, Gender |-> "Male", Creatinine |-> NaN, Height |-> NaN,
                Creatinine_3m_prior |-> NaN,
                ACR |-> IF IsNaN(a) THEN NaN ELSE a * FP,
                Date |-> d, Systolic_BP |-> NaN, Diastolic_BP |-> NaN,
                HbA1c |-> NaN, EMIS_CKD_Code |-> "unread",
                eGFR |-> IF IsNaN(e) THEN NaN ELSE e * FP, eGFR_3m_prior |-> NaN,
                CKD_Stage |-> s, CKD_Stage_3m |-> NoneValue,
                risk_2yr |-> k, risk_5yr |-> k, frame |-> "merged",
                CKD_ACR |-> ACRGradeOf(pipeline, IF IsNaN(a) THEN NaN ELSE a * FP),
                Nephrology_Referral |-> NoneValue,
                Multidisciplinary_Care |-> NoneValue, Modality_Education |-> NoneValue,
                BP_Target |-> "<140/90", BP_Flag |-> f,
                days_since_eGFR |-> NaN, review_message |-> NoneValue,
                ACR_raw |-> IF IsNaN(a) THEN NaN ELSE a * FP, Proteinuria_Flag |-> NoneValue,
                Medications |-> "unread", Statin_Recommendation |-> NoneValue]

NextTriage == Triage

SpecTriage == InitTriage /\ [][NextTriage]_vars

-----------------------------------------------------------------------------
(* The KFRE step of Code/CKD_core.py and CKD_auto_nopdf.py on its own: every
   rounded eGFR up to MaxEGFR (and a missing one), ages up to 100, each
   Gender cell of KFREGenderValues, and every ACR of ACRValues *)

BlankRow ==
    [Age |-> NaN, Gender |-> NoneValue, Creatinine |-> NaN, Height |-> NaN,
     Creatinine_3m_prior |-> NaN,
     ACR |-> NaN, Date |-> "unread", Systolic_BP |-> NaN, Diastolic_BP |-> NaN,
     HbA1c |-> NaN, EMIS_CKD_Code |-> "unread",
     eGFR |-> NaN, eGFR_3m_prior |-> NaN,
     CKD_Stage |-> NoneValue, CKD_Stage_3m |-> NoneValue,
     risk_2yr |-> NaN, risk_5yr |-> NaN, frame |-> "merged",
     CKD_ACR |-> NoneValue, Nephrology_Referral |-> NoneValue,
     Multidisciplinary_Care |-> NoneValue, Modality_Education |-> NoneValue,
     BP_Target |-> NoneValue, BP_Flag |-> NoneValue,
     days_since_eGFR |-> NaN, review_message |-> NoneValue,
     ACR_raw |-> NaN, Proteinuria_Flag |-> NoneValue,
     Medications |-> "unread", Statin_Recommendation |-> NoneValue]

KFREAgeValues == {NaN, 18, 70, 100}

(* Gender cells, one of them a value that is neither 'Male' nor 'Female' *)
KFREGenderValues == GenderValues \cup {"Indeterminate"}

KFREStepIndex(pl) == CHOOSE i \in 1..Len(Order(pl)) : Order(pl)[i] = "kfre"

InitKFRE ==
    /\ pipeline \in {"core", "nopdf"}
    /\ pc = KFREStepIndex(pipeline)
    /\ report = NoneValue
    /\ exception = NoException
    /\ extract = <<>>
    /\ \E a \in KFREAgeValues, g \in KFREGenderValues, e \in RoundedEGFRs :
         row = [BlankRow EXCEPT !.Age = a, !.Gender = g, !.eGFR = e,
                                !.CKD_Stage = StageOf(pipeline, e)]

NextKFRE == CalculateRisk

SpecKFRE == InitKFRE /\ [][NextKFRE]_vars

-----------------------------------------------------------------------------
(* Ingestion: the Creatinine and CKD_check extracts of Code/CKD_core.py and
   CKD_auto.py, from read_csv to merged_data.  `extract` holds both tables
   as sequences of rows, the tables as read (raw), and the merged table.
   Dates are day numbers, NaN for NaT; a date written back by the backfill is
   a dd/mm/YYYY string (Date_is_str).  An empty cell is "" until the
   forward-fill, NoneValue (NaN) afterwards. *)

(* HC Number cells: empty, whitespace only, and two patients *)
IdCells == {"", " ", "P", "Q"}

(* timedelta(days=90) *)
TargetOffsetDays == 90

(* the lab and medication cells of a row: a visit without history, a visit
   with a reading 100 days before it, a continuation row with a reading 80
   days before that visit, one with a second reading on the day of the first,
   and a visit with a blank value whose only reading is 500 days after it.
   Value_text is the Value cell as text: "number" when it is the number held
   in Value, otherwise the text itself (Value is then NaN) *)
RowCells ==
    {[Date |-> 200, Value |-> 80, Value_text |-> "number", Date2 |-> NaN, Value2 |-> NaN,
      Age |-> 70, Name |-> "Atorvastatin 20mg tablets"],
     [Date |-> 200, Value |-> 80, Value_text |-> "number", Date2 |-> 100, Value2 |-> 70,
      Age |-> 70, Name |-> NoneValue],
     [Date |-> NaN, Value |-> NaN, Value_text |-> "", Date2 |-> 120, Value2 |-> 75,
      Age |-> NaN, Name |-> "Metformin 500mg tablets"],
     [Date |-> NaN, Value |-> NaN, Value_text |-> "", Date2 |-> 100, Value2 |-> 90,
      Age |-> NaN, Name |-> NoneValue],
     [Date |-> 200, Value |-> NaN, Value_text |-> "", Date2 |-> 700, Value2 |-> 60,
      Age |-> 70, Name |-> NoneValue]}

(* a row as read, with the columns the ingestion adds still empty *)
ExtractRow(id, cells) ==
    [HC |-> id, Date |-> cells.Date, Date_is_str |-> FALSE, Value |-> cells.Value,
     Value_text |-> cells.Value_text, Date2 |-> cells.Date2, Value2 |-> cells.Value2, Age |-> cells.Age,
     Name |-> cells.Name,
     Creatinine_3m_prior |-> NaN, Date_3m_prior |-> NaN,
     Medications |-> [isna |-> TRUE, names |-> <<>>], Code_Term |-> NoneValue]

ExtractRows == {ExtractRow(id, c) : id \in IdCells, c \in RowCells}

MaxRows == 3

Tables == UNION {[1..n -> ExtractRows] : n \in 1..MaxRows}

(* the CKD_check extract: absent, one patient, the same patient twice, or
   a patient with a continuation row followed by a row of another patient
   without Age *)
CKDCheckTables ==
    LET v == CHOOSE c \in RowCells : c.Date = 200 /\ c.Date2 = 100
        w == CHOOSE c \in RowCells : IsNaN(c.Date) /\ c.Date2 = 120
    IN  {<<>>, <<ExtractRow("P", v)>>, <<ExtractRow("P", v), ExtractRow("P", v)>>,
         <<ExtractRow("Q", v), ExtractRow("", w), ExtractRow("P", w)>>}

Abs(x) == IF x < 0 THEN -x ELSE x

(* df['HC Number'].replace("", np.nan).ffill() *)
ffill(df, i) ==
    IF df[i].HC # "" THEN df[i].HC
    ELSE LET above == {j \in 1..(i - 1) : df[j].HC # ""} IN
         IF above = {} THEN NoneValue
         ELSE df[CHOOSE j \in above : \A k \in above : k <= j].HC

ForwardFillTable(df) == [i \in 1..Len(df) |-> [df[i] EXCEPT !.HC = ffill(df, i)]]

(* newest_rows without the grouping: the first row of the whole table with
   the latest Date.2 *)
newest_rows_whole_table(df, group) ==
    LET grp_valid == {i \in 1..Len(df) : NotNa(df[i].Date2)} IN
    IF group = NoneValue \/ grp_valid = {} THEN 0
    ELSE CHOOSE i \in grp_valid :
           \A j \in grp_valid : df[j].Date2 < df[i].Date2
                                \/ (df[j].Date2 = df[i].Date2 /\ i <= j)

(* newest_rows[group]: the first row of the group with the latest Date.2
   (idxmax); 0 when the group has no valid Date.2 or the key is NaN *)
newest_rows(df, group) ==
    LET grp_valid == {i \in 1..Len(df) : df[i].HC = group /\ NotNa(df[i].Date2)} IN
    IF group = NoneValue \/ grp_valid = {} THEN 0
    ELSE CHOOSE i \in grp_valid :
           \A j \in grp_valid : df[j].Date2 < df[i].Date2
                                \/ (df[j].Date2 = df[i].Date2 /\ i <= j)

(* df['Value'].replace("", np.nan) and pd.to_numeric(errors='coerce'): every
   cell that is not a number becomes NaN *)
CoerceValue(r) == [r EXCEPT !.Value_text = IF @ = "number" THEN @ ELSE NoneValue]

(* is_missing: NaN, or a text that is empty, whitespace, 'na', 'n/a', 'null'
   or 'none' once stripped and lower-cased *)
is_missing(val, text) ==
    \/ text = NoneValue
    \/ text \in {"", " ", "NA", "na", "n/a", "null", "none"}
    \/ (text = "number" /\ IsNaN(val))

(* update_row: Value and Date are filled from the newest row when missing *)
update_row(df, r) ==
    LET k == newest_rows(df, r.HC) IN
    IF k = 0 THEN r
    ELSE [r EXCEPT !.Value = IF is_missing(r.Value, r.Value_text) THEN df[k].Value2 ELSE @,
                   !.Value_text = IF is_missing(r.Value, r.Value_text)
                                  THEN (IF IsNaN(df[k].Value2) THEN NoneValue ELSE "number")
                                  ELSE @,
                   !.Date = IF IsNaN(r.Date) THEN df[k].Date2 ELSE @,
                   !.Date_is_str = IsNaN(r.Date)]

(* the column coercions, then update_row on every row *)
update_df_with_newest_value2(df) ==
    LET coerced == [i \in 1..Len(df) |-> CoerceValue(df[i])] IN
    [i \in 1..Len(df) |-> update_row(coerced, coerced[i])]

NoPrior == [value |-> NaN, date |-> NaN]

(* select_closest_3m_prior_creatinine without the HC Number filter: the
   candidates are the pairs of every row of the table *)
select_closest_any_patient(r, df) ==
    IF IsNaN(r.Date) \/ r.Date_is_str THEN NoPrior
    ELSE LET target_date == r.Date - TargetOffsetDays
             valid_pairs == {i \in 1..Len(df) : NotNa(df[i].Date2) /\ NotNa(df[i].Value2)}
         IN  IF valid_pairs = {} THEN NoPrior
             ELSE LET k == CHOOSE i \in valid_pairs :
                             \A j \in valid_pairs :
                                \/ Abs(df[j].Date2 - target_date) > Abs(df[i].Date2 - target_date)
                                \/ /\ Abs(df[j].Date2 - target_date) = Abs(df[i].Date2 - target_date)
                                   /\ i <= j
                  IN  [value |-> df[k].Value2, date |-> df[k].Date2]

(* select_closest_3m_prior_creatinine with `diff <= min_diff`: the last
   candidate met wins a tie *)
select_closest_last_on_tie(r, df) ==
    IF IsNaN(r.Date) \/ r.Date_is_str THEN NoPrior
    ELSE LET target_date == r.Date - TargetOffsetDays
             valid_pairs == {i \in 1..Len(df) : /\ r.HC # NoneValue
                                                /\ df[i].HC = r.HC
                                                /\ NotNa(df[i].Date2)
                                                /\ NotNa(df[i].Value2)}
         IN  IF valid_pairs = {} THEN NoPrior
             ELSE LET k == CHOOSE i \in valid_pairs :
                             \A j \in valid_pairs :
                                \/ Abs(df[j].Date2 - target_date) > Abs(df[i].Date2 - target_date)
                                \/ /\ Abs(df[j].Date2 - target_date) = Abs(df[i].Date2 - target_date)
                                   /\ i >= j
                  IN  [value |-> df[k].Value2, date |-> df[k].Date2]

(* Code/CKD_core.py: the candidate of the row's HC Number whose Date.2 is
   nearest to Date - 90 days, the first one met on a tie *)
select_closest_3m_prior_creatinine(r, df) ==
    IF IsNaN(r.Date) \/ r.Date_is_str THEN NoPrior
    ELSE LET target_date == r.Date - TargetOffsetDays
             valid_pairs == {i \in 1..Len(df) : /\ r.HC # NoneValue
                                                /\ df[i].HC = r.HC
                                                /\ NotNa(df[i].Date2)
                                                /\ NotNa(df[i].Value2)}
         IN  IF valid_pairs = {} THEN NoPrior
             ELSE LET k == CHOOSE i \in valid_pairs :
                             \A j \in valid_pairs :
                                \/ Abs(df[j].Date2 - target_date) > Abs(df[i].Date2 - target_date)
                                \/ /\ Abs(df[j].Date2 - target_date) = Abs(df[i].Date2 - target_date)
                                   /\ i <= j
                  IN  [value |-> df[k].Value2, date |-> df[k].Date2]

(* CKD_auto.py: the row's own Date.2 / Value.2 is the only candidate; no
   Date_3m_prior column *)
select_closest_3m_prior_creatinine_auto(r) ==
    IF IsNaN(r.Date) \/ IsNaN(r.Date2) THEN NoPrior
    ELSE [value |-> r.Value2, date |-> NaN]

MatchOf(pl, r, df) ==
    IF pl = "core" THEN select_closest_3m_prior_creatinine(r, df)
    ELSE select_closest_3m_prior_creatinine_auto(r)

MatchTable(pl, df) ==
    [i \in 1..Len(df) |-> [df[i] EXCEPT !.Creatinine_3m_prior = MatchOf(pl, df[i], df).value,
                                        !.Date_3m_prior = MatchOf(pl, df[i], df).date]]

(* ', '.join(x.dropna()) of a group's medication names, in row order *)
RECURSIVE JoinNames(_, _, _)
JoinNames(df, group, i) ==
    IF i > Len(df) THEN <<>>
    ELSE IF df[i].HC = group /\ df[i].Name # NoneValue
         THEN <<df[i].Name>> \o JoinNames(df, group, i + 1)
         ELSE JoinNames(df, group, i + 1)

(* summarize_medications and the left merge on HC Number: NaN for a NaN key *)
summarize_medications(df, r) ==
    IF r.HC = NoneValue THEN [isna |-> TRUE, names |-> <<>>]
    ELSE [isna |-> FALSE, names |-> JoinNames(df, r.HC, 1)]

MedicationsTable(df, code_term) ==
    [i \in 1..Len(df) |-> [df[i] EXCEPT !.Medications = summarize_medications(df, df[i]),
                                        !.Code_Term = code_term]]

(* df.loc[df['Age'].notna()] *)
RECURSIVE RowsWithAge(_, _)
RowsWithAge(df, i) ==
    IF i > Len(df) THEN <<>>
    ELSE IF NotNa(df[i].Age) THEN <<df[i]>> \o RowsWithAge(df, i + 1)
         ELSE RowsWithAge(df, i + 1)

(* creatinine[~creatinine['HC Number'].isin(CKD_check['HC Number'])] *)
RECURSIVE RowsNotIn(_, _, _)
RowsNotIn(df, other, i) ==
    IF i > Len(df) THEN <<>>
    ELSE IF \A j \in 1..Len(other) : other[j].HC # df[i].HC
         THEN <<df[i]>> \o RowsNotIn(df, other, i + 1)
         ELSE RowsNotIn(df, other, i + 1)

(* merged_data without the isin filter: every row of both extracts *)
merged_data_concat_all(creatinine, CKD_check) ==
    RowsWithAge(CKD_check, 1) \o RowsWithAge(creatinine, 1)

(* rows with an Age, then CKD_check followed by the Creatinine rows whose
   HC Number is not in CKD_check *)
merged_data(creatinine, CKD_check) ==
    LET c == RowsWithAge(creatinine, 1)
        k == RowsWithAge(CKD_check, 1)
    IN  IF k # <<>> /\ c # <<>> THEN k \o RowsNotIn(c, k, 1)
        ELSE IF k # <<>> THEN k ELSE c

(* one extract from read_csv to the medication merge *)
IngestedTable(pl, df, code_term) ==
    LET filled == ForwardFillTable(df)
        backfilled == IF pl = "core" THEN update_df_with_newest_value2(filled) ELSE filled
    IN  MedicationsTable(MatchTable(pl, backfilled), code_term)

(* the ingestion steps of each variant *)
IngestOrder(pl) ==
    IF pl = "core" THEN <<"ffill", "backfill", "match", "meds", "merge">>
    ELSE <<"ffill", "match", "meds", "merge">>

IngestStep ==
    IF pc <= Len(IngestOrder(pipeline)) THEN IngestOrder(pipeline)[pc] ELSE "done"

IngestRan(s) ==
    \E i \in 1..Len(IngestOrder(pipeline)) : IngestOrder(pipeline)[i] = s /\ i < pc

InitIngest ==
    /\ pipeline \in {"core", "auto"}
    /\ pc = 1
    /\ report = NoneValue
    /\ exception = NoException
    /\ row = BlankRow
    /\ \E t \in Tables, k \in CKDCheckTables :
         extract = [raw |-> t, creatinine |-> t, CKD_check |-> k, merged |-> <<>>]

ForwardFill ==
    /\ IngestStep = "ffill"
    /\ extract' = [extract EXCEPT !.creatinine = ForwardFillTable(@),
                                  !.CKD_check = ForwardFillTable(@)]
    /\ pc' = pc + 1
    /\ UNCHANGED <<pipeline, row, report, exception>>

Backfill ==
    /\ IngestStep = "backfill"
    /\ extract' = [extract EXCEPT !.creatinine = update_df_with_newest_value2(@),
                                  !.CKD_check = update_df_with_newest_value2(@)]
    /\ pc' = pc + 1
    /\ UNCHANGED <<pipeline, row, report, exception>>

TemporalMatching ==
    /\ IngestStep = "match"
    /\ extract' = [extract EXCEPT !.creatinine = MatchTable(pipeline, @),
                                  !.CKD_check = MatchTable(pipeline, @)]
    /\ pc' = pc + 1
    /\ UNCHANGED <<pipeline, row, report, exception>>

MergeMedications ==
    /\ IngestStep = "meds"
    /\ extract' = [extract EXCEPT !.creatinine = MedicationsTable(@, "No EMIS CKD entry"),
                                  !.CKD_check = MedicationsTable(@, "CKD stage 3")]
    /\ pc' = pc + 1
    /\ UNCHANGED <<pipeline, row, report, exception>>

MergeExtracts ==
    /\ IngestStep = "merge"
    /\ extract' = [extract EXCEPT !.merged = merged_data(extract.creatinine, extract.CKD_check)]
    /\ pc' = pc + 1
    /\ UNCHANGED <<pipeline, row, report, exception>>

NextIngest ==
    \/ ForwardFill
    \/ Backfill
    \/ TemporalMatching
    \/ MergeMedications
    \/ MergeExtracts

SpecIngest == InitIngest /\ [][NextIngest]_vars

-----------------------------------------------------------------------------
(* The forward-fill and the backfill of Code/CKD_core.py over tables whose
   Value cells also hold text: whitespace, 'NA', and a censored reading *)

BackfillCells ==
    RowCells \cup
    {[Date |-> 200, Value |-> NaN, Value_text |-> " ", Date2 |-> 100, Value2 |-> 70,
      Age |-> 70, Name |-> NoneValue],
     [Date |-> NaN, Value |-> NaN, Value_text |-> "NA", Date2 |-> 120, Value2 |-> 75,
      Age |-> 70, Name |-> NoneValue],
     [Date |-> 200, Value |-> NaN, Value_text |-> "<30", Date2 |-> 100, Value2 |-> 70,
      Age |-> 70, Name |-> NoneValue],
     [Date |-> 200, Value |-> NaN, Value_text |-> "<30", Date2 |-> NaN, Value2 |-> NaN,
      Age |-> 70, Name |-> NoneValue]}

MaxBackfillRows == 2

BackfillTables ==
    UNION {[1..n -> {ExtractRow(id, c) : id \in IdCells, c \in BackfillCells}] :
             n \in 1..MaxBackfillRows}

InitBackfill ==
    /\ pipeline = "core"
    /\ pc = 1
    /\ report = NoneValue
    /\ exception = NoException
    /\ row = BlankRow
    /\ \E t \in BackfillTables :
         extract = [raw |-> t, creatinine |-> t, CKD_check |-> <<>>, merged |-> <<>>]

NextBackfill ==
    \/ ForwardFill
    \/ Backfill

SpecBackfill == InitBackfill /\ [][NextBackfill]_vars

-----------------------------------------------------------------------------
(* The medication-safety lookups of the three variants on their own: a row
   with a rounded eGFR and a medication text, and the two threshold reference
   files as loaded *)

MedicationTexts == MedicationValues \cup {"metformin 500mg", "Ironorm drops"}

SafetyEGFRValues == {NaN, 10 * FP, 30 * FP, 31 * FP}

SafetyFileValues ==
    {[exists |-> TRUE, rows |-> <<>>],
     [exists |-> TRUE, rows |-> <<[drug |-> "Metformin", eGFR |-> 30]>>],
     [exists |-> TRUE, rows |-> <<[drug |-> "Metformin", eGFR |-> 30],
                                  [drug |-> "Iron", eGFR |-> 15]>>]}

MedicationOrder == <<"contra", "dose">>

MedicationStep ==
    IF pc = Crashed THEN "crashed"
    ELSE IF pc <= Len(MedicationOrder) THEN MedicationOrder[pc] ELSE "done"

InitMedication ==
    /\ pipeline \in Pipelines
    /\ pc = 1
    /\ report = NoneValue
    /\ exception = NoException
    /\ extract = <<>>
    /\ \E e \in SafetyEGFRValues, m \in MedicationTexts,
          c \in SafetyFileValues, d \in SafetyFileValues :
         row = [eGFR |-> e, Medications |-> m,
                contraindicated_drugs_file |-> c, drug_adjustment_file |-> d,
                contraindicated_prescribed |-> <<>>, dose_adjustment_prescribed |-> <<>>]

(* the contraindicated_prescribed column of one row *)
CheckContraindications ==
    /\ MedicationStep = "contra"
    /\ LET res == contraindicated_prescribed(pipeline, row, row.contraindicated_drugs_file) IN
       IF res.raised # "none"
       THEN pc' = Crashed /\ exception' = Raised(res.raised, "contra") /\ row' = row
       ELSE /\ pc' = pc + 1
            /\ exception' = exception
            /\ row' = [row EXCEPT !.contraindicated_prescribed = res.value]
    /\ UNCHANGED <<pipeline, report, extract>>

(* the dose_adjustment_prescribed column of one row *)
CheckDoseAdjustments ==
    /\ MedicationStep = "dose"
    /\ LET res == dose_adjustment_prescribed(pipeline, row, row.drug_adjustment_file) IN
       IF res.raised # "none"
       THEN pc' = Crashed /\ exception' = Raised(res.raised, "dose") /\ row' = row
       ELSE /\ pc' = pc + 1
            /\ exception' = exception
            /\ row' = [row EXCEPT !.dose_adjustment_prescribed = res.value]
    /\ UNCHANGED <<pipeline, report, extract>>

NextMedication ==
    \/ CheckContraindications
    \/ CheckDoseAdjustments

SpecMedication == InitMedication /\ [][NextMedication]_vars

-----------------------------------------------------------------------------
(* The SGLT2 inhibitor columns of Code/CKD_core.py on their own:
   Current_SGLT2i_Status, SGLT2i_Recommendation and SGLT2i_Action_Needed of a
   row with an eGFR, an ACR, an HbA1c and a medication text *)

(* str(x): 'nan' for a NaN cell *)
StrOf(x) == IF x = NoneValue THEN "nan" ELSE x

(* get_sglt2_medications: medication and brand name of every row, lower-cased *)
RECURSIVE get_sglt2_medications(_, _)
get_sglt2_medications(file, i) ==
    IF i > Len(file) THEN <<>>
    ELSE <<file[i].medication, file[i].brand_name>> \o get_sglt2_medications(file, i + 1)

(* get_diabetes_medications: the lower-cased names of diabetes_meds.csv *)
get_diabetes_medications(file) == {LowerChars(file[i]) : i \in 1..Len(file)}

(* `med in str(medications).lower()` *)
InLowered(med, medications) == Occurs(LowerChars(med), LowerChars(StrOf(medications)))

has_diabetes(r) ==
    \/ \E med \in get_diabetes_medications(r.diabetes_meds_file) :
          Occurs(med, LowerChars(StrOf(r.Medications)))
    \/ (NotNa(r.HbA1c) /\ r.HbA1c > 48)

(* check_sglt2i_contraindications: the join of the contraindications found
   (the two eGFR texts exclude 'No diabetes diagnosis', so at most one) *)
check_sglt2i_contraindications(r) ==
    IF IsNaN(r.eGFR) THEN "Unable to assess - missing eGFR"
    ELSE LET low == IF r.eGFR < 15 * FP THEN <<"eGFR < 15">>
                    ELSE IF r.eGFR < 25 * FP /\ ~InLowered("dapagliflozin", r.Medications)
                    THEN <<"eGFR 15-25: only dapagliflozin suitable">>
                    ELSE <<>>
             nodm == IF ~has_diabetes(r) /\ r.eGFR >= 30 * FP
                     THEN <<"No diabetes diagnosis">> ELSE <<>>
             contraindications == low \o nodm
         IN  IF contraindications = <<>> THEN "No contraindications"
             ELSE contraindications[1]

(* f"Not recommended - {contraindications}" *)
NotRecommended(contraindications) ==
    CASE contraindications = "eGFR < 15" -> "Not recommended - eGFR < 15"
      [] contraindications = "eGFR 15-25: only dapagliflozin suitable" ->
           "Not recommended - eGFR 15-25: only dapagliflozin suitable"
      [] contraindications = "No diabetes diagnosis" ->
           "Not recommended - No diabetes diagnosis"

(* check_current_sglt2i: the names of the list found in the lowered text;
   None (the empty sequence) for a NaN text or when none is found *)
RECURSIVE NamesFound(_, _, _)
NamesFound(meds, medications, i) ==
    IF i > Len(meds) THEN <<>>
    ELSE (IF InLowered(meds[i], medications) THEN <<meds[i]>> ELSE <<>>)
         \o NamesFound(meds, medications, i + 1)

check_current_sglt2i(medications, file) ==
    IF medications = NoneValue THEN <<>>
    ELSE NamesFound(get_sglt2_medications(file, 1), medications, 1)

(* f"Continue current SGLT2i ({current_sglt2i})", for the one name found *)
ContinueCurrent(current_sglt2i) ==
    CASE current_sglt2i = <<"dapagliflozin">> -> "Continue current SGLT2i (dapagliflozin)"
      [] current_sglt2i = <<"empagliflozin">> -> "Continue current SGLT2i (empagliflozin)"

recommend_sglt2(r) ==
    IF IsNaN(r.eGFR) \/ IsNaN(r.ACR) THEN "Unable to determine - Missing data"
    ELSE IF check_sglt2i_contraindications(r) # "No contraindications"
    THEN NotRecommended(check_sglt2i_contraindications(r))
    ELSE IF ~(\/ (has_diabetes(r) /\ r.ACR >= 3 * FP)
              \/ (~has_diabetes(r) /\ r.ACR >= 226000))
    THEN "Not indicated based on ACR threshold"
    ELSE IF r.eGFR >= 30 * FP
    THEN LET current_sglt2i == check_current_sglt2i(r.Medications, r.sglt2_inhibitors_file) IN
         IF current_sglt2i # <<>> THEN ContinueCurrent(current_sglt2i)
         ELSE "Recommend SGLT2i (dapagliflozin, empagliflozin, or canagliflozin)"
    ELSE IF r.eGFR >= 15 * FP
    THEN IF InLowered("dapagliflozin", r.Medications) THEN "Continue dapagliflozin"
         ELSE "Consider dapagliflozin only"
    ELSE "Not recommended - eGFR too low"

Current_SGLT2i_Status(r) ==
    IF \E i \in 1..Len(get_sglt2_medications(r.sglt2_inhibitors_file, 1)) :
          InLowered(get_sglt2_medications(r.sglt2_inhibitors_file, 1)[i], r.Medications)
    THEN "On SGLT2i" ELSE "Not on SGLT2i"

(* `text in str(row['SGLT2i_Recommendation']).lower()` *)
InRecommendation(text, r) == Occurs(Chars(text), LowerChars(r.SGLT2i_Recommendation))

SGLT2i_Action_Needed(r) ==
    IF r.Current_SGLT2i_Status = "On SGLT2i" /\ InRecommendation("recommend", r)
    THEN "Continue current SGLT2i"
    ELSE IF r.Current_SGLT2i_Status = "On SGLT2i" /\ InRecommendation("dapagliflozin only", r)
    THEN "Switch to dapagliflozin"
    ELSE IF r.Current_SGLT2i_Status = "Not on SGLT2i" /\ InRecommendation("recommend", r)
    THEN "Consider initiating SGLT2i"
    ELSE IF r.Current_SGLT2i_Status = "On SGLT2i" /\ InRecommendation("not recommended", r)
    THEN "Review/Stop current SGLT2i"
    ELSE "No action needed"

SGLT2EGFRValues == {NaN, 10 * FP, 20 * FP, 28 * FP, 45 * FP}

SGLT2ACRValues == {0, 3 * FP, 25 * FP}

SGLT2MedicationValues ==
    {NoneValue, "Metformin 500mg tablets", "Atorvastatin 20mg tablets",
     "Dapagliflozin 10mg tablets", "Empagliflozin 10mg tablets"}

(* sglt2_inhibitors.csv: medication and brand_name *)
SGLT2FileRows ==
    <<[medication |-> "dapagliflozin", brand_name |-> "forxiga"],
      [medication |-> "empagliflozin", brand_name |-> "jardiance"]>>

(* diabetes_meds.csv: with and without the SGLT2 inhibitors among its names *)
DiabetesFileValues ==
    {<<"metformin">>, <<"metformin", "dapagliflozin", "empagliflozin">>}

SGLT2Order == <<"status", "recommendation", "action">>

SGLT2Step == IF pc <= Len(SGLT2Order) THEN SGLT2Order[pc] ELSE "done"

InitSGLT2 ==
    /\ pipeline = "core"
    /\ pc = 1
    /\ report = NoneValue
    /\ exception = NoException
    /\ extract = <<>>
    /\ \E e \in SGLT2EGFRValues, a \in SGLT2ACRValues, h \in HbA1cValues,
          m \in SGLT2MedicationValues, d \in DiabetesFileValues :
         row = [eGFR |-> e, ACR |-> a, HbA1c |-> h, Medications |-> m,
                diabetes_meds_file |-> d, sglt2_inhibitors_file |-> SGLT2FileRows,
                Current_SGLT2i_Status |-> NoneValue, SGLT2i_Recommendation |-> NoneValue,
                SGLT2i_Action_Needed |-> NoneValue]

CurrentSGLT2iStatus ==
    /\ SGLT2Step = "status"
    /\ row' = [row EXCEPT !.Current_SGLT2i_Status = Current_SGLT2i_Status(row)]
    /\ pc' = pc + 1
    /\ UNCHANGED <<pipeline, report, exception, extract>>

SGLT2iRecommendation ==
    /\ SGLT2Step = "recommendation"
    /\ row' = [row EXCEPT !.SGLT2i_Recommendation = recommend_sglt2(row)]
    /\ pc' = pc + 1
    /\ UNCHANGED <<pipeline, report, exception, extract>>

SGLT2iActionNeeded ==
    /\ SGLT2Step = "action"
    /\ row' = [row EXCEPT !.SGLT2i_Action_Needed = SGLT2i_Action_Needed(row)]
    /\ pc' = pc + 1
    /\ UNCHANGED <<pipeline, report, exception, extract>>

NextSGLT2 ==
    \/ CurrentSGLT2iStatus
    \/ SGLT2iRecommendation
    \/ SGLT2iActionNeeded

SpecSGLT2 == InitSGLT2 /\ [][NextSGLT2]_vars

-----------------------------------------------------------------------------
(* Code/CKD_core.py from the staging step to the report, on rounded eGFRs
   on both sides of the Stage 2 and "Normal Function" boundaries *)

OverrideEGFRValues == {NaN} \cup {e * FP : e \in {45, 59, 60, 61, 89, 90, 95}}

InitOverride ==
    /\ pipeline = "core"
    /\ pc = StageStepIndex
    /\ report = NoneValue
    /\ exception = NoException
    /\ extract = <<>>
    /\ \E e \in OverrideEGFRValues, g \in {"Male", "Female"} :
         row = [Age |-> 70, Gender |-> g, Creatinine |-> NaN, Height |-> NaN,
                Creatinine_3m_prior |-> NaN,
                ACR |-> NaN, Date |-> "unread", Systolic_BP |-> NaN, Diastolic_BP |-> NaN,
                HbA1c |-> NaN, EMIS_CKD_Code |-> "unread",
                eGFR |-> e, eGFR_3m_prior |-> NaN,
                CKD_Stage |-> NoneValue, CKD_Stage_3m |-> NoneValue,
                risk_2yr |-> NaN, risk_5yr |-> NaN, frame |-> "merged",
                CKD_ACR |-> NoneValue, Nephrology_Referral |-> NoneValue,
                Multidisciplinary_Care |-> NoneValue, Modality_Education |-> NoneValue,
                BP_Target |-> NoneValue, BP_Flag |-> NoneValue,
                days_since_eGFR |-> NaN, review_message |-> NoneValue,
                ACR_raw |-> NaN, Proteinuria_Flag |-> NoneValue,
                Medications |-> "unread", Statin_Recommendation |-> NoneValue]

NextOverride ==
    \/ ClassifyStage
    \/ CalculateRisk
    \/ ClassifyACR
    \/ NormalFunctionOverride
    \/ ReferralFlags
    \/ BPTargetAndFlag
    \/ ProteinuriaFlag
    \/ ContraindicatedMedications
    \/ DoseAdjustments
    \/ StatinRecommendation
    \/ RecommendedMedications
    \/ Triage

SpecOverride == InitOverride /\ [][NextOverride]_vars

-----------------------------------------------------------------------------
(* The dates of Code/CKD_core.py as calendar days.  A Timestamp is the number
   of its day counted from the first of January of the year of Epoch; the
   dd/mm/YYYY string that the backfill writes is the triple of its numeric
   fields.  The ingestion is followed by the re-parse of the Date column of
   the merged table. *)

Epoch == [day |-> 1, month |-> 1, year |-> 2024]

IsLeap(year) == year % 4 = 0 /\ (year % 100 # 0 \/ year % 400 = 0)

DaysInMonth(month, year) ==
    IF month = 2 THEN (IF IsLeap(year) THEN 29 ELSE 28)
    ELSE IF month \in {4, 6, 9, 11} THEN 30 ELSE 31

IsCalendarDate(day, month, year) ==
    /\ month \in 1..12
    /\ day \in 1..DaysInMonth(month, year)
    /\ year >= Epoch.year

(* the calendar date of day number n, counted from the first day of `month` *)
RECURSIVE ToCalendar(_, _, _)
ToCalendar(n, month, year) ==
    IF n <= DaysInMonth(month, year) THEN [day |-> n, month |-> month, year |-> year]
    ELSE IF month = 12 THEN ToCalendar(n - DaysInMonth(month, year), 1, year + 1)
    ELSE ToCalendar(n - DaysInMonth(month, year), month + 1, year)

(* the day number of a calendar date *)
RECURSIVE ToOrdinal(_, _, _)
ToOrdinal(day, month, year) ==
    IF month = Epoch.month /\ year = Epoch.year THEN day
    ELSE IF month = 1 THEN day + ToOrdinal(DaysInMonth(12, year - 1), 12, year - 1)
    ELSE day + ToOrdinal(DaysInMonth(month - 1, year), month - 1, year)

(* Timestamp.strftime('%d/%m/%Y'): the fields of the text, in the order written *)
strftime(date) ==
    LET c == ToCalendar(date, Epoch.month, Epoch.year) IN <<c.day, c.month, c.year>>

(* strptime with a format: NaT (errors='coerce') when the fields are no date *)
strptime(text, format) ==
    LET day == IF format = "%d/%m/%Y" THEN text[1] ELSE text[2]
        month == IF format = "%d/%m/%Y" THEN text[2] ELSE text[1]
    IN  IF IsCalendarDate(day, month, text[3]) THEN ToOrdinal(day, month, text[3]) ELSE NaN

(* dateutil with dayfirst=False: month first, day first when that is no date *)
parse_month_first(text) ==
    IF NotNa(strptime(text, "%m/%d/%Y")) THEN strptime(text, "%m/%d/%Y")
    ELSE strptime(text, "%d/%m/%Y")

(* the format guessed from a text with dayfirst=False *)
guess_datetime_format(text) == IF text[1] <= 12 THEN "%m/%d/%Y" ELSE "%d/%m/%Y"

(* pd.to_datetime(CKD_review['Date'], errors='coerce') on the object column
   left by the backfill.  Timestamps stay; a string is parsed either on its
   own, month first, or with the one format guessed from the first non-null
   element when that element is a string: which of the two depends on the
   pandas release, and `parser` chooses. *)
to_datetime(df, parser) ==
    LET non_null == {i \in 1..Len(df) : NotNa(df[i].Date)}
        first == CHOOSE i \in non_null : \A j \in non_null : i <= j
        guessed == non_null # {} /\ df[first].Date_is_str /\ parser = "format"
        format == guess_datetime_format(strftime(df[first].Date))
    IN  [i \in 1..Len(df) |->
            IF IsNaN(df[i].Date) \/ ~df[i].Date_is_str THEN df[i]
            ELSE [df[i] EXCEPT !.Date_is_str = FALSE,
                               !.Date = IF guessed THEN strptime(strftime(df[i].Date), format)
                                        ELSE parse_month_first(strftime(df[i].Date))]]

(* visits with an Age and no Date of their own, whose reading is 100 days
   (09/04), 120 days (29/04) and 189 days (07/07) into the year *)
UndatedCells ==
    {[Date |-> NaN, Value |-> NaN, Value_text |-> "", Date2 |-> d, Value2 |-> 75,
      Age |-> 70, Name |-> NoneValue] : d \in {100, 120, 189}}

RoundTripTables ==
    UNION {[1..n -> {ExtractRow(id, c) : id \in {"", "P", "Q"}, c \in RowCells \cup UndatedCells}] :
             n \in 1..MaxBackfillRows}

ParserValues == {"dateutil", "format"}

InitRoundTrip ==
    /\ pipeline = "core"
    /\ pc = 1
    /\ report = NoneValue
    /\ exception = NoException
    /\ row = BlankRow
    /\ \E t \in RoundTripTables :
         extract = [raw |-> t, creatinine |-> t, CKD_check |-> <<>>, merged |-> <<>>]

(* CKD_review['Date'] = pd.to_datetime(CKD_review['Date'], errors='coerce') *)
ConfirmDates ==
    /\ pc = Len(IngestOrder(pipeline)) + 1
    /\ \E parser \in ParserValues :
         extract' = [extract EXCEPT !.merged = to_datetime(@, parser)]
    /\ pc' = pc + 1
    /\ UNCHANGED <<pipeline, row, report, exception>>

NextRoundTrip ==
    \/ ForwardFill
    \/ Backfill
    \/ TemporalMatching
    \/ MergeMedications
    \/ MergeExtracts
    \/ ConfirmDates

SpecRoundTrip == InitRoundTrip /\ [][NextRoundTrip]_vars

-----------------------------------------------------------------------------
(* Properties *)

CkdReviewLabels ==
    {"Incorrect EMIS Coding",
     "Review Required (CKD Stage 1-2 with >1 year since last eGFR or ACR >3)",
     "Review Required (CKD Stage 3-5 with >6 months since last eGFR, ACR >30, or high-risk)",
     "Review Required (CKD Stage 3-5 with >3 months since last eGFR)",
     "Review Required (eGFR date unavailable)",
     "No immediate review required",
     "Normal Renal Function"}

ReviewMessageLabels ==
    {"Review Required (CKD Stage 1-2 with >1 year since last eGFR or ACR >3)",
     "Review Required (CKD Stage 3-5 with >6 months since last eGFR, ACR >30, or high-risk)",
     "Review Required (CKD Stage 3-5 with >3 months since last eGFR)",
     "Review Required (eGFR date unavailable)",
     "No immediate review required",
     "No CKD stage specified"}

(* the keys of map_review_message_to_folder *)
ComputeReviewMessageLabels ==
    {"Review Required - CKD Stage 1-2 with ACR > 3",
     "Review Required - CKD Stage 3-5 with eGFR < 30",
     "Review Required - CKD Stage 3-5 with ACR >= 30",
     "Review Required - CKD Stage 3-5 with 5-year risk > 5%",
     "Review Required - eGFR date unavailable",
     "No Immediate Review Required",
     "General Review - CKD Stage 1-2",
     "General Review - CKD Stage 3-5",
     "General Review - Unknown CKD Stage"}

LabelsOf(rep) ==
    IF rep = "ckd_review" THEN CkdReviewLabels
    ELSE IF rep = "compute_review_message" THEN ComputeReviewMessageLabels
    ELSE ReviewMessageLabels

FallbackLabel(rep) ==
    IF rep = "ckd_review" THEN "Normal Renal Function"
    ELSE IF rep = "compute_review_message" THEN "General Review - Unknown CKD Stage"
    ELSE "No CKD stage specified"

DateUnavailableLabels ==
    {"Review Required (eGFR date unavailable)", "Review Required - eGFR date unavailable"}

ReviewRequiredLabels ==
    {"Review Required (CKD Stage 1-2 with >1 year since last eGFR or ACR >3)",
     "Review Required (CKD Stage 3-5 with >6 months since last eGFR, ACR >30, or high-risk)",
     "Review Required (CKD Stage 3-5 with >3 months since last eGFR)",
     "Review Required - CKD Stage 1-2 with ACR > 3",
     "Review Required - CKD Stage 3-5 with eGFR < 30",
     "Review Required - CKD Stage 3-5 with ACR >= 30",
     "Review Required - CKD Stage 3-5 with 5-year risk > 5%"}

(* the stage labels a triage function tests for *)
TestedStages(rep) ==
    IF rep = "ckd_review"
    THEN {"Stage 1", "Stage 2", "Stage 3", "Stage 3A", "Stage 3B", "Stage 4", "Stage 5",
          "Normal Function"}
    ELSE IF rep = "compute_review_message"
    THEN {"Stage 1", "Stage 2", "Stage 3A", "Stage 3B", "Stage 4", "Stage 5",
          "Normal Function"}
    ELSE {"Stage 1", "Stage 2", "Stage 3", "Stage 3a", "Stage 3b", "Stage 4", "Stage 5"}

UnrecognizedStage == row.CKD_Stage \notin TestedStages(report)

(* C1, as stated: for every stage value, date validity, ACR, risk, BP flag
   and EMIS code the triage function returns one string of its fixed
   enumeration, never null, and an unrecognized stage gets the fallback
   label. *)
C1_UnrecognizedStageGetsFallback ==
    Done =>
        /\ row.review_message \in LabelsOf(report)
        /\ row.review_message # NoneValue
        /\ UnrecognizedStage => row.review_message = FallbackLabel(report)

(* C1, amended: the triage function returns one string of its fixed
   enumeration, never null; an unrecognized stage gets the fallback label
   from compute_review_message always, and from ckd_review and
   review_message when the visit date is valid: with the date missing they
   return the date-unavailable label. *)
C1_TriageEnumerated ==
    Done =>
        /\ row.review_message \in LabelsOf(report)
        /\ row.review_message # NoneValue
        /\ UnrecognizedStage =>
              IF report = "compute_review_message" \/ row.Date = "valid"
              THEN row.review_message = FallbackLabel(report)
              ELSE row.review_message = "Review Required (eGFR date unavailable)"

C1_Witness ==
    /\ Done /\ report = "ckd_review"
    /\ row.CKD_Stage = "Acute Kidney Injury" /\ row.Date = "valid"
    /\ row.review_message = "Normal Renal Function"

RequiredInputsMissing(r) == IsNaN(r.Age) \/ r.Gender = NoneValue \/ IsNaN(r.Creatinine)

(* C2: calculate_eGFR returns a finite, non-negative number when Age, Gender
   and Creatinine are present (and Height, for Age < 18), the missing
   sentinel when one of Age, Gender, Creatinine is missing, and never raises
   an exception; Creatinine = 0 included, in every variant. *)
C2_EGFRFiniteIffInputsPresent ==
    /\ exception.step # "egfr"
    /\ Ran("egfr") =>
         /\ RequiredInputsMissing(row) => IsNaN(row.eGFR)
         /\ (~RequiredInputsMissing(row) /\ (row.Age >= 18 \/ NotNa(row.Height)))
               => IsNum(row.eGFR)

(* the bands of the staging table *)
BandLabel(eGFR) ==
    CASE eGFR >= 90 * FP -> "Stage 1"
      [] eGFR >= 60 * FP /\ eGFR < 90 * FP -> "Stage 2"
      [] eGFR >= 45 * FP /\ eGFR < 60 * FP -> "Stage 3A"
      [] eGFR >= 30 * FP /\ eGFR < 45 * FP -> "Stage 3B"
      [] eGFR >= 15 * FP /\ eGFR < 30 * FP -> "Stage 4"
      [] eGFR > 0 /\ eGFR < 15 * FP -> "Stage 5"
      [] OTHER -> "No Data"

Severity(stage) ==
    CASE stage = "Stage 1" -> 1
      [] stage = "Stage 2" -> 2
      [] stage = "Stage 3A" -> 3
      [] stage = "Stage 3B" -> 4
      [] stage = "Stage 4" -> 5
      [] stage = "Stage 5" -> 6
      [] OTHER -> 0

(* C3: classify_CKD_stage gives every defined rounded eGFR >= 0 the one label
   of its band (Stage 1 from 90, Stage 2 on [60,90), Stage 3A on [45,60),
   Stage 3B on [30,45), Stage 4 on [15,30), Stage 5 on (0,15), 'No Data'
   otherwise); a larger eGFR never has a more severe stage; the current and
   the prior eGFR are staged by the same partition. *)
C3_StagePartition ==
    Ran("stage") =>
        /\ NotNa(row.eGFR) => row.CKD_Stage = BandLabel(row.eGFR)
        /\ NotNa(row.eGFR_3m_prior) => row.CKD_Stage_3m = BandLabel(row.eGFR_3m_prior)
        /\ (row.eGFR > 0 /\ row.eGFR_3m_prior > 0 /\ row.eGFR >= row.eGFR_3m_prior)
              => Severity(row.CKD_Stage) <= Severity(row.CKD_Stage_3m)
        /\ (NotNa(row.eGFR) /\ row.eGFR = row.eGFR_3m_prior)
              => row.CKD_Stage = row.CKD_Stage_3m

C3_Witness ==
    /\ Ran("stage")
    /\ row.eGFR = 60 * FP /\ row.CKD_Stage = "Stage 2"
    /\ row.eGFR_3m_prior = 59 * FP /\ row.CKD_Stage_3m = "Stage 3A"

(* C4: the stage-override step sets CKD_Stage to 'Normal Function' exactly
   when ACR < 3 and eGFR > 60 and a current visit date exists, and leaves the
   base label in every other case. *)
C4_NormalFunctionExactly ==
    [][Step = "normal" =>
         row'.CKD_Stage =
            IF /\ Lt(row'.ACR, 3 * FP) /\ Gt(row'.eGFR, 60 * FP) /\ row'.Date = "valid"
            THEN "Normal Function" ELSE row.CKD_Stage]_vars

(* the Normal-Function rule on the prior eGFR and the ACR *)
PriorNormalFunction(r) ==
    Lt(r.ACR, 3 * FP) /\ Gt(r.eGFR_3m_prior, 60 * FP) /\ r.Date = "valid"

(* C5: when the pipeline finishes, a record whose prior eGFR/ACR pair meets
   the Normal-Function rule has CKD_Stage 'Acute Kidney Injury', whatever its
   base stage or Normal-Function override was. *)
C5_AcuteKidneyInjuryLast ==
    Done => (PriorNormalFunction(row) => row.CKD_Stage = "Acute Kidney Injury")

(* C6: a record whose visit date is missing or unparseable is triaged with
   the date-unavailable label, whatever its stage, ACR, risk, BP flag and
   EMIS code. *)
C6_MissingDateFirst ==
    (Done /\ row.Date = "NaT") => row.review_message \in DateUnavailableLabels

(* C7: with a valid visit date and final stage Stage 1 or Stage 2, ckd_review
   and review_message give a 'Review Required' label if and only if
   days-since-visit > 365 or the numeric ACR > 3 or BP_Flag is above target,
   and 'No immediate review required' otherwise. *)
C7_Stage12Triage ==
    (/\ Done /\ report \in {"ckd_review", "review_message"}
     /\ row.Date = "valid" /\ row.CKD_Stage \in {"Stage 1", "Stage 2"})
    => IF \/ row.days_since_eGFR > 365
          \/ Gt(row.ACR, 3 * FP)
          \/ row.BP_Flag = "Above Target"
       THEN row.review_message \in ReviewRequiredLabels
       ELSE row.review_message = "No immediate review required"

(* the Stage 3A-5 labels of the variant's staging step *)
StagedLabels3to5(pl) ==
    {StageOf(pl, e * FP) : e \in {50, 40, 20, 10}}

(* C8: with a valid visit date and final stage 3A, 3B, 4 or 5, triage is
   'Review Required' if ACR >= 30 or 5-year risk > 5 or days-since-visit >
   180, else still flagged if days-since-visit > 90, else 'No immediate
   review required'; triage tests the labels the staging step produces. *)
C8_Stage3to5Triage ==
    (/\ Done /\ pipeline \in {"core", "auto"}
     /\ report \in {"ckd_review", "review_message"}
     /\ row.Date = "valid" /\ row.CKD_Stage \in StagedLabels3to5(pipeline))
    => /\ row.CKD_Stage \in TestedStages(report)
       /\ IF \/ Ge(row.ACR, 30 * FP)
             \/ Gt(NumericRisk(row.risk_5yr), 500)
             \/ row.days_since_eGFR > 180
             \/ row.days_since_eGFR > 90
          THEN row.review_message \in ReviewRequiredLabels
          ELSE row.review_message = "No immediate review required"

(* Scenario A generalised: eGFR >= 90, ACR present and < 3, visit less than
   365 days old, BP not above target *)
ScenarioA ==
    /\ Done /\ pipeline = "core"
    /\ Ge(row.eGFR, 90 * FP) /\ row.eGFR # Inf
    /\ row.ACR # ACRSubstitute(pipeline) /\ Lt(row.ACR, 3 * FP)
    /\ row.Date = "valid" /\ row.days_since_eGFR < 365
    /\ row.BP_Flag # "Above Target"

(* C9, as stated: such a record leaves the pipeline with stage Stage 1,
   CKD_ACR 'A1', BP target '<140/90' and triage 'No immediate review
   required'. *)
C9_ScenarioAStage1 ==
    ScenarioA =>
        /\ row.CKD_Stage = "Stage 1"
        /\ row.CKD_ACR = "A1"
        /\ row.BP_Target = "<140/90"
        /\ row.review_message = "No immediate review required"

(* C9, amended: such a record leaves the pipeline with stage 'Normal
   Function', CKD_ACR 'A1', BP target '<140/90' unless HbA1c > 53 (then
   '<130/80'), and a triage that asks for no review: 'Normal Renal Function'
   from ckd_review ('Incorrect EMIS Coding' when the record carries an EMIS
   CKD code), 'No Immediate Review Required' from compute_review_message. *)
C9_ScenarioANormalFunction ==
    ScenarioA =>
        /\ row.CKD_Stage = "Normal Function"
        /\ row.CKD_ACR = "A1"
        /\ row.BP_Target = IF Gt(row.HbA1c, 53) THEN "<130/80" ELSE "<140/90"
        /\ row.review_message =
              IF report = "compute_review_message" THEN "No Immediate Review Required"
              ELSE IF row.EMIS_CKD_Code \in NoEMISEntry THEN "Normal Renal Function"
              ELSE "Incorrect EMIS Coding"

C9_Witness ==
    /\ ScenarioA /\ report = "ckd_review"
    /\ row.Age = 70 /\ row.Creatinine = 70 /\ row.ACR = 1 * FP /\ IsNaN(row.HbA1c)
    /\ row.CKD_Stage = "Normal Function"
    /\ row.review_message = "Normal Renal Function"

(* Scenario C: Age < 18, Height missing, Creatinine present *)
ScenarioC ==
    /\ pipeline \in {"core", "nopdf"}
    /\ NotNa(row.Age) /\ row.Age < 18 /\ IsNaN(row.Height) /\ NotNa(row.Creatinine)

(* C10, as stated: for Age < 18, Height missing and Creatinine present, no
   exception is raised, eGFR is the missing sentinel and the record's CKD
   stage in the output is 'No Data'. *)
C10_UndefinedEGFRNoData ==
    ScenarioC =>
        /\ exception.step \notin {"egfr", "round", "stage", "kfre"}
        /\ Ran("egfr") => IsNaN(row.eGFR)
        /\ Done => row.CKD_Stage = "No Data"

(* C10, amended: in CKD_core and CKD_auto_nopdf, for Age < 18, Height missing
   and Creatinine present, the eGFR, rounding, staging and risk steps raise
   no exception, eGFR is the missing sentinel, classify_CKD_stage returns
   None for it, and from the risk step on the record's CKD stage is the
   sentinel 'Error: Insufficient data'.  (In CKD_core the later
   Statin_Recommendation step does raise on such a record unless it is on a
   statin: C18.) *)
C10_UndefinedEGFRInsufficientData ==
    ScenarioC =>
        /\ exception.step \notin {"egfr", "round", "stage", "kfre"}
        /\ Ran("egfr") => IsNaN(row.eGFR)
        /\ (Ran("stage") /\ ~Ran("kfre")) => row.CKD_Stage = NoneValue
        /\ Ran("kfre") => row.CKD_Stage = INSUFFICIENT

C10_Witness ==
    /\ Done /\ pipeline = "core"
    /\ row.Age = 16 /\ IsNaN(row.Height) /\ row.Creatinine = 70 /\ row.Gender = "Female"
    /\ IsNaN(row.eGFR) /\ row.CKD_Stage = INSUFFICIENT

-----------------------------------------------------------------------------
(* KFRE inputs as read: ACR_raw is the ACR cell before fillna(0) *)
InputMissing(r) ==
    IsNaN(r.Age) \/ r.Gender = NoneValue \/ IsNaN(r.eGFR) \/ IsNaN(r.ACR_raw)

(* C11: in CKD_core, every record missing Age, Gender, eGFR or ACR in the
   input is left out of KFRE scoring (it is in missing_data_df, the frame
   written to the exclusion file) and carries the insufficient-data sentinel
   in risk_2yr and risk_5yr; none has a numeric risk in the main table. *)
C11_MissingInputsNeverScored ==
    (pipeline = "core" /\ Ran("kfre") /\ InputMissing(row)) =>
        /\ row.frame = "missing"
        /\ row.risk_2yr = RiskError
        /\ row.risk_5yr = RiskError

(* the ACR cell was empty or 0 in the input *)
ACRAbsentOrZero(r) == IsNaN(r.ACR_raw) \/ r.ACR_raw = 0

(* C12: in CKD_core, every record whose ACR was absent or 0 in the input is
   flagged 'Review Required (ACR Missing)' by the proteinuria
   classification, scored or not, and the 'Normal Function' override does
   not apply to it. *)
C12_SubstitutedACRTraceable ==
    (pipeline = "core" /\ Ran("kfre") /\ ACRAbsentOrZero(row)) =>
        /\ Ran("proteinuria") => row.Proteinuria_Flag = "Review Required (ACR Missing)"
        /\ Ran("normal") => row.CKD_Stage # "Normal Function"

(* C13: for every scored record (a record of the complete frame, its ACR not
   negative), risk_2yr and risk_5yr both lie in [0, 100] percent. *)
C13_ScoredRiskInRange ==
    (Ran("kfre") /\ row.frame = "complete") =>
        /\ 0 <= row.risk_2yr /\ row.risk_2yr <= 100 * 100
        /\ 0 <= row.risk_5yr /\ row.risk_5yr <= 100 * 100

(* a scored record near the top of the range: Age 18, eGFR 5, ACR 300 *)
C13_Witness ==
    /\ Ran("kfre") /\ row.frame = "complete" /\ pipeline = "core"
    /\ row.Age = 18 /\ row.eGFR = 5 * FP /\ row.ACR = 300 * FP
    /\ row.risk_5yr > 90 * 100 /\ row.risk_2yr > 50 * 100

(* C17: in CKD_core, a run that fails because a reference file is absent
   fails in the startup check, before any row is processed; no later step
   raises FileNotFoundError. *)
C17_MissingFileFailsAtStartup ==
    (pipeline = "core" /\ exception.type = "FileNotFoundError") =>
        exception.step = "startup"

(* C18: in CKD_core, no step raises on a single record's missing medication
   text or missing eGFR: the contraindication, dose-adjustment, statin and
   recommendation steps give the record a default and the run goes on. *)
C18_RecordNeverAbortsBatch ==
    pipeline = "core" =>
        ~(/\ exception.type = "TypeError"
          /\ exception.step \in {"contra", "dose", "statin", "recommend"})

(* the widest window around (current date - 90 days) that the matching could
   mean: 90 days each side, that is from 180 days before the visit to the
   visit itself *)
WindowDays == 90

(* the candidate readings of a row: in core every (Date.2, Value.2) pair of
   the patient's rows, in auto the row's own pair *)
CandidateDates(pl, r, df) ==
    IF pl = "core"
    THEN {df[i].Date2 : i \in {j \in 1..Len(df) : /\ r.HC # NoneValue /\ df[j].HC = r.HC
                                                   /\ NotNa(df[j].Date2) /\ NotNa(df[j].Value2)}}
    ELSE IF NotNa(r.Date2) THEN {r.Date2} ELSE {}

OutsideWindow(r, d) == Abs(d - (r.Date - TargetOffsetDays)) > WindowDays

(* C14: temporal matching is never forced: a row whose patient has no
   historical reading, or whose historical readings all lie outside the
   window around (current date - 90 days), gets the 'no prior value' result
   from select_closest_3m_prior_creatinine, in CKD_core and in CKD_auto. *)
C14_MatchingNeverForced ==
    IngestRan("match") =>
        \A i \in 1..Len(extract.creatinine) :
            LET r == extract.creatinine[i] IN
            (\A d \in CandidateDates(pipeline, r, extract.creatinine) : OutsideWindow(r, d))
                => IsNaN(r.Creatinine_3m_prior)

(* a blank identifier: missing, empty or whitespace only *)
IsBlankId(id) == id \in {NoneValue, "", " "}

(* C15: after the identifier forward-fill no row of an extract has a blank
   identifier, whatever the rows: an extract whose first row has a blank
   identifier and whitespace-only identifiers included. *)
C15_NoBlankIdentifierAfterFill ==
    IngestRan("ffill") =>
        /\ \A i \in 1..Len(extract.creatinine) : ~IsBlankId(extract.creatinine[i].HC)
        /\ \A i \in 1..Len(extract.CKD_check) : ~IsBlankId(extract.CKD_check[i].HC)

(* C16: the merged table has exactly one row per patient identifier (blank
   identifiers aside), for every pair of extracts, those in which a patient
   has several rows included. *)
C16_OneRowPerPatient ==
    IngestRan("merge") =>
        \A i, j \in 1..Len(extract.merged) :
            (/\ ~IsBlankId(extract.merged[i].HC)
             /\ extract.merged[i].HC = extract.merged[j].HC) => i = j

(* the orders of a table's rows *)
RowOrders(n) == {p \in [1..n -> 1..n] : \A i, j \in 1..n : p[i] = p[j] => i = j}

Permute(df, p) == [i \in 1..Len(df) |-> df[p[i]]]

IsCandidate(r) == r.HC # NoneValue /\ NotNa(r.Date2) /\ NotNa(r.Value2)

(* each patient's candidate rows are in date order *)
SortedByDate(df) ==
    \A i, j \in 1..Len(df) :
        (i < j /\ IsCandidate(df[i]) /\ IsCandidate(df[j]) /\ df[i].HC = df[j].HC)
            => df[i].Date2 <= df[j].Date2

(* the result of every row is the same under any two date-sorted orders *)
OrderIndependent(pl, df) ==
    LET sorted == {t \in {Permute(df, p) : p \in RowOrders(Len(df))} : SortedByDate(t)} IN
    \A t, u \in sorted :
        \A k \in 1..Len(df) : MatchOf(pl, df[k], t) = MatchOf(pl, df[k], u)

(* no patient has two candidate readings on one date with different values *)
OneValuePerDate(df) ==
    \A i, j \in 1..Len(df) :
        (IsCandidate(df[i]) /\ IsCandidate(df[j]) /\ df[i].HC = df[j].HC
         /\ df[i].Date2 = df[j].Date2) => df[i].Value2 = df[j].Value2

(* C20, as stated: once a patient's candidate rows are sorted by date, every
   initial order of the rows gives the same (prior value, prior date) for
   every row, and matching the matched table again changes nothing. *)
C20_MatchingOrderIndependent ==
    IngestRan("match") =>
        /\ OrderIndependent(pipeline, extract.creatinine)
        /\ MatchTable(pipeline, extract.creatinine) = extract.creatinine

(* C20, amended: the same, for the tables in which no patient has two
   candidate readings of one date with different values (among these the
   first row met wins, so the result follows the row order). *)
C20_MatchingOrderIndependentDistinctDates ==
    (IngestRan("match") /\ OneValuePerDate(extract.creatinine)) =>
        /\ OrderIndependent(pipeline, extract.creatinine)
        /\ MatchTable(pipeline, extract.creatinine) = extract.creatinine

(* patient P's visit of day 200 with readings of day 100 and day 120, both 10
   days from the target, in date order, and a row of another patient: the
   earlier reading is the result *)
C20_Witness ==
    /\ IngestRan("match") /\ pipeline = "core" /\ Len(extract.creatinine) = 3
    /\ SortedByDate(extract.creatinine) /\ OneValuePerDate(extract.creatinine)
    /\ extract.creatinine[1].HC = "Q"
    /\ extract.creatinine[2].HC = "P" /\ extract.creatinine[2].Date = 200
    /\ extract.creatinine[2].Date2 = 100
    /\ extract.creatinine[3].HC = "P" /\ extract.creatinine[3].Date2 = 120
    /\ extract.creatinine[2].Creatinine_3m_prior = 70
    /\ extract.creatinine[2].Date_3m_prior = 100

(* the rows of df at the positions where the ingested table has identifier id *)
RECURSIVE RowsOfPatient(_, _, _, _)
RowsOfPatient(df, ingested, id, i) ==
    IF i > Len(df) THEN <<>>
    ELSE IF ingested[i].HC = id THEN <<df[i]>> \o RowsOfPatient(df, ingested, id, i + 1)
         ELSE RowsOfPatient(df, ingested, id, i + 1)

(* C19: patient isolation.  The derived rows of a patient (identifier,
   backfilled value and date, 3-month-prior value and date, aggregated
   medications) in any table equal the rows derived from the table that holds
   that patient's rows alone; hence they are the same in any two tables that
   contain the same rows for the patient, whatever the other rows are and
   wherever the patient's rows sit. *)
C19_PatientIsolation ==
    IngestRan("meds") =>
        \A id \in IdCells \ {""} :
            RowsOfPatient(extract.creatinine, extract.creatinine, id, 1)
                = IngestedTable(pipeline,
                                RowsOfPatient(extract.raw, extract.creatinine, id, 1),
                                "No EMIS CKD entry")

(* patient Q's row with a reading of day 700 first, then patient P's visit of
   day 200 with a reading of day 100 and P's continuation row with a reading
   of day 120 and a medication: P's prior reading and medications are P's own *)
C19_Witness ==
    /\ IngestRan("meds") /\ pipeline = "core" /\ Len(extract.creatinine) = 3
    /\ extract.raw[1].HC = "Q" /\ extract.raw[1].Date2 = 700 /\ IsNaN(extract.raw[1].Value)
    /\ extract.raw[2].HC = "P" /\ extract.raw[2].Date2 = 100
    /\ extract.raw[3].HC = "" /\ extract.raw[3].Date2 = 120
    /\ extract.creatinine[3].HC = "P"
    /\ extract.creatinine[1].Value = 60
    /\ extract.creatinine[2].Creatinine_3m_prior = 70
    /\ extract.creatinine[3].Value = 75 /\ extract.creatinine[3].Date_is_str
    /\ extract.creatinine[2].Medications = [isna |-> FALSE, names |-> <<"Metformin 500mg tablets">>]

-----------------------------------------------------------------------------
(* the distance of a candidate reading from the target date of row r *)
DistanceFromTarget(r, d) == Abs(d - (r.Date - TargetOffsetDays))

(* a row with the two columns the matching adds taken away *)
WithoutPrior(r) == [r EXCEPT !.Creatinine_3m_prior = NaN, !.Date_3m_prior = NaN]

(* the result the matching is to give row r over table df: 'no prior value'
   for a missing or invalid current date or without a valid candidate,
   otherwise the first of the nearest candidates of the patient *)
IsClosestPrior(r, df, value, date) ==
    LET cands == {i \in 1..Len(df) : df[i].HC = r.HC /\ IsCandidate(df[i])} IN
    IF IsNaN(r.Date) \/ r.Date_is_str \/ cands = {}
    THEN IsNaN(value) /\ IsNaN(date)
    ELSE \E k \in cands :
            /\ value = df[k].Value2 /\ date = df[k].Date2
            /\ \A j \in cands :
                  /\ DistanceFromTarget(r, df[j].Date2) >= DistanceFromTarget(r, df[k].Date2)
                  /\ DistanceFromTarget(r, df[j].Date2) = DistanceFromTarget(r, df[k].Date2)
                        => k <= j

(* C21: in CKD_core the matching step gives every row the patient's valid
   candidate nearest to (current date - 90 days), the first one met on a
   tie, or the 'no prior value' pair (NaN, NaN - not zero, no exception)
   when the current date is missing or invalid or no valid candidate exists;
   and it changes no other cell of the table it reads. *)
C21_ClosestPriorSelected ==
    [][(IngestStep = "match" /\ pipeline = "core") =>
         /\ exception' = NoException
         /\ Len(extract'.creatinine) = Len(extract.creatinine)
         /\ \A i \in 1..Len(extract.creatinine) :
               /\ WithoutPrior(extract'.creatinine[i]) = WithoutPrior(extract.creatinine[i])
               /\ IsClosestPrior(extract.creatinine[i], extract.creatinine,
                                 extract'.creatinine[i].Creatinine_3m_prior,
                                 extract'.creatinine[i].Date_3m_prior)]_vars

(* patient P's visit of day 200 with a reading of day 100, P's continuation
   row with a reading of day 120 (both 10 days from the target: the first
   wins), and a visit of P whose date was backfilled and is no Timestamp:
   'no prior value' *)
C21_Witness ==
    /\ IngestRan("match") /\ pipeline = "core" /\ Len(extract.creatinine) = 3
    /\ extract.raw[1].HC = "P" /\ extract.raw[2].HC = "" /\ extract.raw[3].HC = "P"
    /\ extract.creatinine[1].Date = 200 /\ extract.creatinine[1].Date2 = 100
    /\ extract.creatinine[1].Value2 = 70
    /\ extract.creatinine[2].Date2 = 120
    /\ extract.creatinine[1].Creatinine_3m_prior = 70
    /\ extract.creatinine[1].Date_3m_prior = 100
    /\ extract.creatinine[2].Date_is_str
    /\ IsNaN(extract.creatinine[2].Creatinine_3m_prior)
    /\ IsNaN(extract.raw[3].Date2) /\ extract.creatinine[3].Creatinine_3m_prior = 70

-----------------------------------------------------------------------------
(* a primary Value cell that is blank: NaN, empty, whitespace, or one of
   'na', 'n/a', 'null', 'none' in any case *)
IsBlankValue(r) ==
    \/ r.Value_text \in {NoneValue, "", " ", "NA", "na", "n/a", "null", "none"}
    \/ (r.Value_text = "number" /\ IsNaN(r.Value))

(* the rows of r's patient that carry the most recent secondary-slot date *)
MostRecentSecondary(df, r) ==
    {k \in 1..Len(df) : /\ r.HC # NoneValue /\ df[k].HC = r.HC /\ NotNa(df[k].Date2)
                        /\ \A j \in 1..Len(df) :
                              (df[j].HC = r.HC /\ NotNa(df[j].Date2))
                                  => df[j].Date2 <= df[k].Date2}

(* C22: the backfill never overwrites a present primary value or date.  A
   row's Value (Date) changes only if it was blank, whitespace or one of
   'na', 'n/a', 'null', 'none'; it then receives the Value.2 (Date.2) of the
   patient's row with the most recent Date.2; and the rows of a patient
   without a valid Date.2 are unchanged. *)
C22_BackfillKeepsPresentValues ==
    [][IngestStep = "backfill" =>
         \A i \in 1..Len(extract.creatinine) :
            LET r == extract.creatinine[i]
                r2 == extract'.creatinine[i]
                newest == MostRecentSecondary(extract.creatinine, r)
            IN  /\ ~IsBlankValue(r) => (r2.Value = r.Value /\ r2.Value_text = r.Value_text)
                /\ NotNa(r.Date) => (r2.Date = r.Date /\ ~r2.Date_is_str)
                /\ (IsBlankValue(r) /\ newest # {})
                      => \E k \in newest : r2.Value = extract.creatinine[k].Value2
                /\ (IsNaN(r.Date) /\ newest # {})
                      => \E k \in newest : r2.Date = extract.creatinine[k].Date2
                /\ newest = {} => (r2.Value = r.Value /\ r2.Date = r.Date)]_vars

-----------------------------------------------------------------------------
(* C23: in CKD_core the backfill runs before the temporal matching (and
   both before any score), so a row whose Value and Date were blank and whose
   patient has a valid secondary reading holds the backfilled value and date
   when the matching runs, and its 3-month-prior result is the one computed
   from the backfilled date. *)
C23_DerivedFromBackfilledValues ==
    (pipeline = "core" /\ IngestRan("match")) =>
        \A i \in 1..Len(extract.creatinine) :
            LET r == extract.creatinine[i]
                newest == MostRecentSecondary(extract.creatinine, r)
            IN  (IsNaN(extract.raw[i].Value) /\ IsNaN(extract.raw[i].Date) /\ newest # {})
                    => /\ \E k \in newest : /\ r.Value = extract.creatinine[k].Value2
                                            /\ r.Date = extract.creatinine[k].Date2
                       /\ IsClosestPrior([r EXCEPT !.Date_is_str = FALSE], extract.creatinine,
                                         r.Creatinine_3m_prior, r.Date_3m_prior)

-----------------------------------------------------------------------------
(* stages 3A to 5, in the spelling of either variant *)
FinalStage3to5(r) ==
    r.CKD_Stage \in {"Stage 3A", "Stage 3B", "Stage 3a", "Stage 3b", "Stage 4", "Stage 5"}

(* a risk that is a number, compared with a percentage *)
RiskAtLeast(risk, pct) == risk # NaN /\ risk # RiskError /\ risk >= pct * 100
RiskAbove(risk, pct) == risk # NaN /\ risk # RiskError /\ risk > pct * 100

(* C24: once the referral flags are computed, in CKD_core and in CKD_auto,
   each flag is 'Indicated' exactly when the record's CKD_Stage - then and at
   every later step, so the final one - is in {3A, 3B, 4, 5} and the 5-year
   risk is >= 5 (nephrology referral), the 2-year risk > 10
   (multidisciplinary care), the 2-year risk > 40 (modality education). *)
C24_FlagsFromFinalStage ==
    (pipeline \in {"core", "auto"} /\ Ran("referral")) =>
        /\ row.Nephrology_Referral
              = Indicated(FinalStage3to5(row) /\ RiskAtLeast(row.risk_5yr, 5))
        /\ row.Multidisciplinary_Care
              = Indicated(FinalStage3to5(row) /\ RiskAbove(row.risk_2yr, 10))
        /\ row.Modality_Education
              = Indicated(FinalStage3to5(row) /\ RiskAbove(row.risk_2yr, 40))

-----------------------------------------------------------------------------
(* patient id has a row with an Age in the table, the rows the Age filter keeps *)
InFrame(df, id) == \E j \in 1..Len(df) : df[j].HC = id /\ NotNa(df[j].Age)

(* the rows of df that carry identifier id and an Age, in table order *)
RECURSIVE AgedRowsOf(_, _, _)
AgedRowsOf(df, id, i) ==
    IF i > Len(df) THEN <<>>
    ELSE IF df[i].HC = id /\ NotNa(df[i].Age) THEN <<df[i]>> \o AgedRowsOf(df, id, i + 1)
         ELSE AgedRowsOf(df, id, i + 1)

(* C25: the merge prefers the CKD_check extract.  A patient with rows in the
   CKD_check frame (rows with an Age) has exactly those rows in the merged
   table and none of the Creatinine extract; a patient with rows in the
   Creatinine frame only has exactly those; and no patient who has an Age in
   either extract is absent from the merged table. *)
C25_MergePrefersCKDCheck ==
    IngestRan("merge") =>
        \A id \in IdCells \ {"", " "} :
            LET fromCheck == AgedRowsOf(extract.CKD_check, id, 1)
                fromCreat == AgedRowsOf(extract.creatinine, id, 1)
                merged == AgedRowsOf(extract.merged, id, 1)
            IN  /\ InFrame(extract.CKD_check, id) => merged = fromCheck
                /\ ~InFrame(extract.CKD_check, id) => merged = fromCreat
                /\ (InFrame(extract.CKD_check, id) \/ InFrame(extract.creatinine, id))
                      => InFrame(extract.merged, id)

(* patient P in both extracts and patient Q in the Creatinine extract only:
   the merged table is P's CKD_check row followed by Q's Creatinine row *)
C25_Witness ==
    /\ IngestRan("merge") /\ Len(extract.CKD_check) = 1
    /\ Len(extract.creatinine) = 3
    /\ extract.creatinine[1].HC = "P" /\ NotNa(extract.creatinine[1].Age)
    /\ extract.creatinine[2].HC = "Q" /\ NotNa(extract.creatinine[2].Age)
    /\ extract.creatinine[3].HC = "Q" /\ IsNaN(extract.creatinine[3].Age)
    /\ Len(extract.merged) = 2
    /\ extract.merged[1].HC = "P" /\ extract.merged[1].Code_Term = "CKD stage 3"
    /\ extract.merged[2] = extract.creatinine[2]
    /\ extract.merged[2].Code_Term = "No EMIS CKD entry"

-----------------------------------------------------------------------------
(* the reference-table drugs whose threshold is at or above the eGFR and
   whose name is a whole-word, case-insensitive match in the medication
   text, in file order; the default when there is none or the eGFR is
   missing *)
RECURSIVE ThresholdAndWholeWord(_, _, _, _)
ThresholdAndWholeWord(rows, eGFR, medications, i) ==
    IF i > Len(rows) THEN <<>>
    ELSE (IF /\ NotNa(eGFR) /\ eGFR <= rows[i].eGFR * FP
             /\ medications # NoneValue /\ re_search(rows[i].drug, medications)
          THEN <<rows[i].drug>> ELSE <<>>)
         \o ThresholdAndWholeWord(rows, eGFR, medications, i + 1)

ExpectedFlag(file, r, default) ==
    LET listed == ThresholdAndWholeWord(file.rows, r.eGFR, r.Medications, 1) IN
    IF listed = <<>> THEN <<default>> ELSE listed

(* C26: in every variant, contraindicated_prescribed and
   dose_adjustment_prescribed list exactly the reference-table drugs whose
   threshold is >= the patient's eGFR and whose name is a whole-word,
   case-insensitive match in the medication text; with no such drug or a
   missing eGFR the cell is 'No contraindications' / 'No adjustments
   needed'. *)
C26_SafetyFlagsWholeWord ==
    /\ (MedicationStep \in {"dose", "done"})
          => row.contraindicated_prescribed
                = ExpectedFlag(row.contraindicated_drugs_file, row, "No contraindications")
    /\ MedicationStep = "done"
          => row.dose_adjustment_prescribed
                = ExpectedFlag(row.drug_adjustment_file, row, "No adjustments needed")

-----------------------------------------------------------------------------
(* C27: no record is lost by the scoring split of CKD_core (and of
   CKD_auto_nopdf): after the KFRE step every row of the merged table is in
   the final table, scored (the complete frame, with numeric risks) or
   carrying the insufficient-data sentinels (the missing frame), whatever
   its Gender cell holds. *)
C27_NoRecordLostBySplit ==
    (pipeline \in {"core", "nopdf"} /\ Ran("kfre")) =>
        \/ /\ row.frame = "complete"
           /\ row.risk_2yr \notin {NaN, RiskError} /\ row.risk_5yr \notin {NaN, RiskError}
        \/ /\ row.frame = "missing"
           /\ row.risk_2yr = RiskError /\ row.risk_5yr = RiskError
           /\ row.CKD_Stage = INSUFFICIENT

-----------------------------------------------------------------------------
(* the recommendation text begins with 'Not recommended' *)
StartsNotRecommended(r) ==
    LET prefix == Chars("Not recommended")
        text == Chars(r.SGLT2i_Recommendation)
    IN  /\ Len(prefix) <= Len(text)
        /\ \A k \in 1..Len(prefix) : text[k] = prefix[k]

(* C28: SGLT2i_Action_Needed is 'Review/Stop current SGLT2i' for every
   record that is 'On SGLT2i' and whose SGLT2i_Recommendation starts with
   'Not recommended', and it is 'Continue current SGLT2i' or 'Consider
   initiating SGLT2i' only for records whose recommendation is not a 'Not
   recommended ...' text. *)
C28_NotRecommendedNeverContinued ==
    SGLT2Step = "done" =>
        /\ (row.Current_SGLT2i_Status = "On SGLT2i" /\ StartsNotRecommended(row))
              => row.SGLT2i_Action_Needed = "Review/Stop current SGLT2i"
        /\ row.SGLT2i_Action_Needed \in {"Continue current SGLT2i", "Consider initiating SGLT2i"}
              => ~StartsNotRecommended(row)

-----------------------------------------------------------------------------
(* C29: after the stage overrides of Code/CKD_core.py every record with a
   valid current date and CKD_Stage 'Stage 1' or 'Stage 2' has ACR >= 3 or
   a rounded eGFR of exactly 60; hence ckd_review returns 'No immediate
   review required' for a Stage 1-2 record only when its eGFR is exactly
   60. *)
C29_Stage12AfterOverride ==
    (pipeline = "core" /\ row.Date = "valid" /\ row.CKD_Stage \in {"Stage 1", "Stage 2"}) =>
        /\ Ran("normal") => (Ge(row.ACR, 3 * FP) \/ row.eGFR = 60 * FP)
        /\ (Ran("triage") /\ row.review_message = "No immediate review required")
              => row.eGFR = 60 * FP

(* a Stage 2 record of Code/CKD_core.py with a valid date, ACR below 3 and
   a rounded eGFR of 60 for which ckd_review returned 'No immediate review
   required' *)
C29_Witness ==
    /\ pipeline = "core" /\ Ran("triage") /\ report = "ckd_review"
    /\ row.Date = "valid" /\ row.CKD_Stage = "Stage 2"
    /\ row.eGFR = 60 * FP /\ row.ACR < 3 * FP
    /\ row.review_message = "No immediate review required"

-----------------------------------------------------------------------------
(* C30: a date that the backfill writes into the primary slot as a
   dd/mm/YYYY string is accepted as a valid current date by the temporal
   matching that follows (the row gets the prior reading that the same row
   with a Timestamp gets), and the later re-parse of the Date column reads
   it back as the calendar day of the secondary reading it was copied from:
   neither another day nor not-a-date. *)
C30_BackfilledDateRoundTrip ==
    [][
       /\ (IngestStep = "match" /\ pc' = pc + 1) =>
             \A i \in 1..Len(extract.creatinine) :
                LET r == extract.creatinine[i]
                    m == select_closest_3m_prior_creatinine(
                             [r EXCEPT !.Date_is_str = FALSE], extract.creatinine)
                IN  r.Date_is_str =>
                       (/\ extract'.creatinine[i].Creatinine_3m_prior = m.value
                        /\ extract'.creatinine[i].Date_3m_prior = m.date)
       /\ (pc = Len(IngestOrder(pipeline)) + 1 /\ pc' = pc + 1) =>
             \A i \in 1..Len(extract.merged) :
                extract.merged[i].Date_is_str =>
                   (extract'.merged[i].Date = extract.merged[i].Date)
      ]_vars

=============================================================================
